---- MODULE Spec2Model ----
(***************************************************************************)
(* A model of mammoth-setup: the Binding data type and its deserializer    *)
(* (src/src/config/port.rs), the validator framework                       *)
(* (src/src/diagnostics.rs), the configuration validators                  *)
(* (src/src/config.rs, config/mammoth.rs, config/host.rs,                  *)
(* config/module.rs), the module loader (src/src/loaded/library.rs) with   *)
(* its concurrent callers and its drop, and the editing of the host and    *)
(* module lists (src/src/config.rs, src/src/config/host.rs), the Host      *)
(* setters and identifier (src/src/config/host.rs), the PathValidator on   *)
(* paths of its own and the logger shared between threads                  *)
(* (src/src/diagnostics.rs).                                               *)
(*                                                                         *)
(* Option<T> is a sequence: <<>> is None and <<v>> is Some(v).             *)
(* A path is the sequence of its tokens, "/" being the separator, so that  *)
(* "./mods/" is <<".", "/", "mods", "/">>; the token "\\" is the backslash, *)
(* a separator on Windows and a character of a file name elsewhere.        *)
(***************************************************************************)
EXTENDS Integers, Sequences, FiniteSets, TLC

VARIABLES
    binding,    \* Option<Binding>: the Binding value the operations act on
    lastop,     \* the last Binding operation, its input and its result
    idv,        \* IdValidator harness: the input and the outcome of validate
    cfg,        \* the ConfigurationFile under validation
    target_os,  \* the platform the crate was built for (cfg(target_os))
    vres,       \* the outcome of the top-level validation
    mod_set,    \* the LoadedModuleSet
    native,     \* the native libraries opened so far (one entry per dlopen)
    ifaces,     \* the interfaces constructed so far and the hooks they received
    lastload,   \* the last loader call, its input and its result
    callers,    \* concurrent callers of load: each one's position and locals
    borrow,     \* the caller that holds the &mut borrow of the set, if any
    teardown,   \* how far the drop of the LoadedModuleSet has got
    conf,       \* the ConfigurationFile whose host and module lists are edited
    lastedit,   \* the last editing call, its input and its result
    the_host,   \* the Host the setters and queries act on
    lasthost,   \* the last Host call, its input and its result
    pv,         \* PathValidator harness: the input and the outcome of validate
    logger,     \* the Vec<Event> behind the shared Arc<RwLock<Logger>>
    wlock,      \* the thread that holds the write lock of the logger, if any
    threads     \* the logging threads: each one's position and locals

vars == <<binding, lastop, idv, cfg, target_os, vres, mod_set, native, ifaces, lastload,
          callers, borrow, teardown, conf, lastedit,
          the_host, lasthost, pv, logger, wlock, threads>>

bindingVars == <<binding, lastop>>
idvVars == <<idv>>
cfgVars == <<cfg, vres>>
loaderVars == <<mod_set, native, ifaces, lastload>>
concVars == <<callers, borrow>>
teardownVars == <<teardown>>
editVars == <<conf, lastedit>>
hostVars == <<the_host, lasthost>>
pvVars == <<pv>>
logVars == <<logger, wlock, threads>>
moreVars == <<the_host, lasthost, pv, logger, wlock, threads>>
otherVars == <<callers, borrow, teardown, conf, lastedit, moreVars>>

notBindingVars == <<idv, cfg, target_os, vres, mod_set, native, ifaces, lastload, otherVars>>
notIdvVars == <<binding, lastop, cfg, target_os, vres, mod_set, native, ifaces, lastload, otherVars>>
notCfgVars == <<binding, lastop, idv, target_os, mod_set, native, ifaces, lastload, otherVars>>
notLoaderVars == <<binding, lastop, idv, cfg, target_os, vres, otherVars>>
notConcVars == <<binding, lastop, idv, cfg, target_os, vres, ifaces, lastload, teardown, conf, lastedit,
                 moreVars>>
notTeardownVars == <<binding, lastop, idv, cfg, target_os, vres, mod_set, native, ifaces, lastload,
                     callers, borrow, conf, lastedit, moreVars>>
notEditVars == <<binding, lastop, idv, cfg, target_os, vres, mod_set, native, ifaces, lastload,
                 callers, borrow, teardown, moreVars>>
loadedVars == <<binding, lastop, idv, cfg, vres, mod_set, native, ifaces, lastload,
                callers, borrow, teardown, conf, lastedit>>
notHostVars == <<loadedVars, target_os, pv, logger, wlock, threads>>
notPvVars == <<loadedVars, target_os, the_host, lasthost, logger, wlock, threads>>
notLogVars == <<loadedVars, target_os, the_host, lasthost, pv>>

None == <<>>
Some(v) == <<v>>
IsSome(o) == Len(o) = 1
IsNone(o) == Len(o) = 0
Unwrap(o) == o[1]

(***************************************************************************)
(* Bounds of the model.                                                    *)
(***************************************************************************)
MaxFields == 4      \* entries of a binding map handed to visit_map
MaxItems == 3       \* items of a list handed to IdValidator
MaxHosts == 2       \* hosts of a ConfigurationFile
MaxMods == 2        \* global modules of a ConfigurationFile
MaxLoads == 3       \* load_into calls on one LoadedModuleSet

(***************************************************************************)
(* Binding (src/src/config/port.rs).                                       *)
(***************************************************************************)
U16Range == 65536

Ports == {80, 443}
CertPaths == {<<".", "/", "cert.pem">>}
KeyPaths == {<<".", "/", "key.pem">>}

\* Binding::new
BindingNew(port) ==
    [port |-> port, secure |-> FALSE, cert |-> None, key |-> None]

\* Binding::with_security
BindingWithSecurity(port, cert, key) ==
    [port |-> port, secure |-> TRUE, cert |-> Some(cert), key |-> Some(key)]

\* impl From<u16> for Binding
BindingFrom(value) ==
    [port |-> value, secure |-> FALSE, cert |-> None, key |-> None]

\* Binding::set_port
BindingSetPort(b, port) == [b EXCEPT !.port = port]

\* Binding::clear_security
BindingClearSecurity(b) ==
    [b EXCEPT !.secure = FALSE, !.cert = None, !.key = None]

\* Binding::set_security
BindingSetSecurity(b, cert, key) ==
    [b EXCEPT !.secure = TRUE, !.cert = Some(cert), !.key = Some(key)]

\* Result<Binding, E> of the deserializer
DeOk(b) == [ok |-> TRUE, val |-> Some(b), err |-> "none"]
DeErr(e) == [ok |-> FALSE, val |-> None, err |-> e]

\* `v as u16`: the low 16 bits of the two's complement value
AsU16(v) == v % U16Range

\* The integer types the deserializer can deliver, each with the values this
\* model draws from it (every value is in the type's range).
IntWidths == {"i8", "i16", "i32", "i64", "u8", "u16", "u32", "u64"}
IntValues(w) ==
    CASE w = "i8" -> {-1, 0, 80}
      [] w = "i16" -> {-1, 0, 80, 443}
      [] w = "i32" -> {-1, 0, 80, 443, 65535, 65536, 65616}
      [] w = "i64" -> {-1, 0, 80, 443, 65535, 65536, 65616}
      [] w = "u8" -> {0, 80}
      [] w = "u16" -> {0, 80, 443, 65535}
      [] w = "u32" -> {0, 80, 443, 65535, 65536, 65616}
      [] w = "u64" -> {0, 80, 443, 65535, 65536, 65616}

\* PortVisitor::visit_i8 .. visit_u64
VisitInt(w, v) ==
    IF w = "u16" THEN DeOk(BindingFrom(v)) ELSE DeOk(BindingFrom(AsU16(v)))

\* One entry of a binding map: the key and its value (n for port, b for
\* secure, p for cert and key).
PortEntry(n) == [k |-> "port", n |-> n, b |-> FALSE, p |-> <<>>]
SecureEntry(b) == [k |-> "secure", n |-> 0, b |-> b, p |-> <<>>]
CertEntry(p) == [k |-> "cert", n |-> 0, b |-> FALSE, p |-> p]
KeyEntry(p) == [k |-> "key", n |-> 0, b |-> FALSE, p |-> p]

\* The loop of visit_map: acc holds the four Option locals; the first error
\* (a duplicate field, or a port value that is no u16) ends the loop.
RECURSIVE VisitMapLoop(_, _, _)
VisitMapLoop(map, i, acc) ==
    IF i > Len(map) THEN acc
    ELSE LET e == map[i] IN
        CASE e.k = "port" ->
                IF IsSome(acc.port) THEN [acc EXCEPT !.err = "duplicate_field port"]
                ELSE IF e.n \notin 0..(U16Range - 1)
                     THEN [acc EXCEPT !.err = "invalid_value port"]
                ELSE VisitMapLoop(map, i + 1, [acc EXCEPT !.port = Some(e.n)])
          [] e.k = "secure" ->
                IF IsSome(acc.secure) THEN [acc EXCEPT !.err = "duplicate_field secure"]
                ELSE VisitMapLoop(map, i + 1, [acc EXCEPT !.secure = Some(e.b)])
          [] e.k = "cert" ->
                IF IsSome(acc.cert) THEN [acc EXCEPT !.err = "duplicate_field cert"]
                ELSE VisitMapLoop(map, i + 1, [acc EXCEPT !.cert = Some(e.p)])
          [] e.k = "key" ->
                IF IsSome(acc.key) THEN [acc EXCEPT !.err = "duplicate_field key"]
                ELSE VisitMapLoop(map, i + 1, [acc EXCEPT !.key = Some(e.p)])

\* A tail of visit_map that does not check that cert and key are there:
\* what VisitMapBuild must not be.
VisitMapBuildUnchecked(port, secure, cert, key) ==
    IF IsNone(port) THEN DeErr("missing_field port")
    ELSE IF secure = Some(FALSE) THEN DeOk(BindingNew(Unwrap(port)))
    ELSE IF (IsSome(secure) /\ Unwrap(secure)) \/ IsSome(cert) \/ IsSome(key) THEN
        DeOk([port |-> Unwrap(port), secure |-> TRUE, cert |-> cert, key |-> key])
    ELSE DeOk(BindingNew(Unwrap(port)))

\* A tail of visit_map that is secure only when told so (no detection from
\* cert and key): what VisitMapBuild must not be.
VisitMapBuildNoDetect(port, secure, cert, key) ==
    IF IsNone(port) THEN DeErr("missing_field port")
    ELSE IF IsSome(secure) /\ Unwrap(secure) THEN
        IF IsNone(cert) THEN DeErr("missing_field cert")
        ELSE IF IsNone(key) THEN DeErr("missing_field key")
        ELSE DeOk(BindingWithSecurity(Unwrap(port), Unwrap(cert), Unwrap(key)))
    ELSE DeOk(BindingNew(Unwrap(port)))

\* A tail of visit_map that looks at cert and key before the explicit
\* secure = false: what VisitMapBuild must not be.
VisitMapBuildCertFirst(port, secure, cert, key) ==
    IF IsNone(port) THEN DeErr("missing_field port")
    ELSE IF (IsSome(secure) /\ Unwrap(secure)) \/ IsSome(cert) \/ IsSome(key) THEN
        IF IsNone(cert) THEN DeErr("missing_field cert")
        ELSE IF IsNone(key) THEN DeErr("missing_field key")
        ELSE DeOk(BindingWithSecurity(Unwrap(port), Unwrap(cert), Unwrap(key)))
    ELSE DeOk(BindingNew(Unwrap(port)))

\* The tail of visit_map: the Binding built from the four locals.
VisitMapBuild(port, secure, cert, key) ==
    IF IsNone(port) THEN DeErr("missing_field port")
    ELSE IF secure = Some(FALSE) THEN DeOk(BindingNew(Unwrap(port)))
    ELSE IF (IsSome(secure) /\ Unwrap(secure)) \/ IsSome(cert) \/ IsSome(key) THEN
        IF IsNone(cert) THEN DeErr("missing_field cert")
        ELSE IF IsNone(key) THEN DeErr("missing_field key")
        ELSE DeOk(BindingWithSecurity(Unwrap(port), Unwrap(cert), Unwrap(key)))
    ELSE DeOk(BindingNew(Unwrap(port)))

\* PortVisitor::visit_map
VisitMap(map) ==
    LET acc == VisitMapLoop(map, 1,
                   [port |-> None, secure |-> None, cert |-> None, key |-> None,
                    err |-> "none"])
    IN  IF acc.err # "none" THEN DeErr(acc.err)
        ELSE VisitMapBuild(acc.port, acc.secure, acc.cert, acc.key)

\* The entries a binding map is drawn from, and the maps of at most n entries.
MapEntries ==
    {PortEntry(n) : n \in {443, 65536}} \cup {SecureEntry(b) : b \in BOOLEAN}
        \cup {CertEntry(p) : p \in CertPaths} \cup {KeyEntry(p) : p \in KeyPaths}

SeqsUpTo(S, n) == UNION {[1..k -> S] : k \in 0..n}

BindingIdle == binding = None /\ lastop = [op |-> "none"]

\* The operations of Binding. A behaviour follows one Binding value: one of
\* the constructors (new, with_security, from, deserialize) makes it, and the
\* setters then act on the value the previous operations left.
BNew ==
    \E port \in Ports :
        /\ IsNone(binding) /\ lastop.op = "none"
        /\ binding' = Some(BindingNew(port))
        /\ lastop' = [op |-> "new", port |-> port]
        /\ UNCHANGED notBindingVars

BWithSecurity ==
    \E port \in Ports, cert \in CertPaths, key \in KeyPaths :
        /\ IsNone(binding) /\ lastop.op = "none"
        /\ binding' = Some(BindingWithSecurity(port, cert, key))
        /\ lastop' = [op |-> "with_security", port |-> port, cert |-> cert, key |-> key]
        /\ UNCHANGED notBindingVars

BFrom ==
    \E value \in Ports :
        /\ IsNone(binding) /\ lastop.op = "none"
        /\ binding' = Some(BindingFrom(value))
        /\ lastop' = [op |-> "from", port |-> value]
        /\ UNCHANGED notBindingVars

BSetPort ==
    \E port \in Ports :
        /\ IsSome(binding)
        /\ binding' = Some(BindingSetPort(Unwrap(binding), port))
        /\ lastop' = [op |-> "set_port", port |-> port]
        /\ UNCHANGED notBindingVars

BSetSecurity ==
    \E cert \in CertPaths, key \in KeyPaths :
        /\ IsSome(binding)
        /\ binding' = Some(BindingSetSecurity(Unwrap(binding), cert, key))
        /\ lastop' = [op |-> "set_security", cert |-> cert, key |-> key]
        /\ UNCHANGED notBindingVars

BClearSecurity ==
    /\ IsSome(binding)
    /\ binding' = Some(BindingClearSecurity(Unwrap(binding)))
    /\ lastop' = [op |-> "clear_security"]
    /\ UNCHANGED notBindingVars

\* Binding::deserialize of a map: Ok yields the Binding, Err yields none.
BDeserializeMap ==
    \E map \in SeqsUpTo(MapEntries, MaxFields) :
        LET r == VisitMap(map) IN
        /\ IsNone(binding) /\ lastop.op = "none"
        /\ binding' = r.val
        /\ lastop' = [op |-> "visit_map", map |-> map, res |-> r]
        /\ UNCHANGED notBindingVars

\* Binding::deserialize of a plain integer.
BDeserializeInt ==
    \E w \in IntWidths : \E v \in IntValues(w) :
        LET r == VisitInt(w, v) IN
        /\ IsNone(binding) /\ lastop.op = "none"
        /\ binding' = r.val
        /\ lastop' = [op |-> "visit_int", width |-> w, v |-> v, res |-> r]
        /\ UNCHANGED notBindingVars

(***************************************************************************)
(* Paths and the environment: the file system and the module libraries in  *)
(* it. The environment does not change while the program runs.             *)
(***************************************************************************)
\* str::ends_with("/") on the text of the path
EndsWithSlash(p) == Len(p) > 0 /\ p[Len(p)] = "/"

\* std::path::is_separator on the platform the crate was built for
IsSeparator(tok) == tok = "/" \/ (tok = "\\" /\ target_os = "windows")
EndsWithSeparator(p) == Len(p) > 0 /\ IsSeparator(p[Len(p)])

\* Path::join of a relative file name
Join(dir, file) ==
    IF dir = <<>> THEN <<file>>
    ELSE IF EndsWithSeparator(dir) THEN dir \o <<file>>
    ELSE dir \o <<"/", file>>

\* Path::components: separators and the "." that do not lead the path are
\* dropped. Two paths are equal (PartialEq of Path) when their components are.
RECURSIVE Components(_, _)
Components(p, i) ==
    IF i > Len(p) THEN <<>>
    ELSE IF IsSeparator(p[i]) \/ (p[i] = "." /\ i > 1) THEN Components(p, i + 1)
    ELSE <<p[i]>> \o Components(p, i + 1)

PathEq(a, b) == Components(a, 1) = Components(b, 1)

\* The file the operating system resolves a path to: no "." at all.
Canon(p) == SelectSeq(Components(p, 1), LAMBDA c : c # ".")

FsDirs == {<<"mods">>, <<"www">>}
LibNames == {"mod_test", "mod_old", "mod_nosym", "mod_nover"}
LibExts == {".dll", ".so"}
FsLibFiles == {<<"mods", n \o e>> : n \in LibNames, e \in LibExts}
FsFiles == FsLibFiles \cup {<<"tests", "test_cert.pem">>, <<"tests", "test_key.pem">>}

\* Path::is_dir and Path::is_file
IsDir(p) == Canon(p) \in FsDirs
IsFile(p) == Canon(p) \in FsFiles /\ ~EndsWithSeparator(p)

\* What a module library exports: the version __version returns, whether the
\* two entry points are there, and the config value its on_validation rejects.
LibDesc(n) ==
    CASE n = "mod_test" ->
            [version |-> <<0, 0, 1>>, has_version |-> TRUE, has_construct |-> TRUE]
      [] n = "mod_old" ->
            [version |-> <<0, 1, 0>>, has_version |-> TRUE, has_construct |-> TRUE]
      [] n = "mod_nosym" ->
            [version |-> <<0, 0, 1>>, has_version |-> TRUE, has_construct |-> FALSE]
      [] n = "mod_nover" ->
            [version |-> <<0, 0, 1>>, has_version |-> FALSE, has_construct |-> TRUE]

\* The library file at a path, if it is one.
LibAt(p) ==
    LET hits == {n \in LibNames : \E e \in LibExts : Canon(p) = <<"mods", n \o e>>}
    IN  IF IsFile(p) /\ hits # {} THEN Some(LibDesc(CHOOSE n \in hits : TRUE))
        ELSE None

\* COMPATIBILITY_STRING
CompatibilityReq == "~0.0.0"

\* A check of the major version only: what Compatible must not be.
CompatibleSameMajor(version) == version[1] = 0

\* version::compatible: the requirement "~0.0.0" is >=0.0.0, <0.1.0
Compatible(version) == version[1] = 0 /\ version[2] = 0

\* DYLIB_EXT
DylibExt == IF target_os = "windows" THEN ".dll" ELSE ".so"

(***************************************************************************)
(* Severity, events and the outcome of a validator.                        *)
(***************************************************************************)
Severities == {"Debug", "Information", "Warning", "Error", "Critical"}

\* The order of the Severity enumeration
SevRank(s) ==
    CASE s = "Debug" -> 0
      [] s = "Information" -> 1
      [] s = "Warning" -> 2
      [] s = "Error" -> 3
      [] s = "Critical" -> 4

SevGE(a, b) == SevRank(a) >= SevRank(b)

\* Event::new
Event(sev, desc) == [severity |-> sev, description |-> desc]

\* What a validator call did: its result ("Ok" or the Error variant), the
\* events it pushed to the logger, and the steps it took, in order. The steps
\* are the inner validators called ("module", "host", "inner", with the index
\* of the item; "binding", "hostname" for the two checks of a host;
\* "PathValidator" with its kind), the native calls made, each logged event
\* ("log") and the Err that was raised ("err").
StepOf(step, idx, what) == [step |-> step, idx |-> idx, what |-> what]
VOk == [res |-> "Ok", log |-> <<>>, trace |-> <<>>]
Mark(step, idx) == [res |-> "Ok", log |-> <<>>, trace |-> <<StepOf(step, idx, "")>>]

\* Logger::log on a Vec<Event>
Log(sev, desc) ==
    [res |-> "Ok", log |-> <<Event(sev, desc)>>, trace |-> <<StepOf("log", 0, desc)>>]

\* Err(e)
Fail(e) == [res |-> e, log |-> <<>>, trace |-> <<StepOf("err", 0, e)>>]

\* A sequencing that keeps going after an Err (collect-all instead of
\* fail-fast): what Then must not be.
ThenCollectAll(a, b) ==
    [res |-> IF a.res # "Ok" THEN a.res ELSE b.res,
     log |-> a.log \o b.log, trace |-> a.trace \o b.trace]

\* a?; b : b runs only when a returned Ok
Then(a, b) ==
    IF a.res # "Ok" THEN a
    ELSE [res |-> b.res, log |-> a.log \o b.log, trace |-> a.trace \o b.trace]

\* PathValidator::validate
PathValidatorValidate(severity, kind, item) ==
    LET failing ==
            CASE kind = "FilePath" -> EndsWithSlash(item)
              [] kind = "ExistingDirectory" -> ~IsDir(item)
              [] kind = "ExistingFile" -> ~IsFile(item)
        desc ==
            CASE kind = "FilePath" -> "Not a valid file name"
              [] kind = "ExistingDirectory" -> "Directory does not exist"
              [] kind = "ExistingFile" -> "File does not exist"
        err == IF kind = "FilePath" THEN "InvalidFilePath" ELSE "FileNotFound"
    IN  Then([res |-> "Ok", log |-> <<>>, trace |-> <<StepOf("PathValidator", 0, kind)>>],
             IF failing
             THEN Then(Log(severity, desc),
                       IF SevGE(severity, "Error") THEN Fail(err) ELSE VOk)
             ELSE VOk)

Contains(seq, x) == \E i \in 1..Len(seq) : seq[i] = x

\* The loop of IdValidator::validate over items i.. : ids[i] is the item's
\* id() and inner[i] what the inner validator does when given the item.
RECURSIVE IdValidatorLoop(_, _, _, _, _, _)
IdValidatorLoop(severity, step, ids, inner, i, uniques) ==
    IF i > Len(ids) THEN VOk
    ELSE IF Contains(uniques, ids[i]) \/ Contains(uniques, ids[i])
    THEN Then(Log(severity, "Unique item declared twice."), Fail("DuplicateItem"))
    ELSE Then(Then(Mark(step, i), inner[i]),
              IdValidatorLoop(severity, step, ids, inner, i + 1, Append(uniques, ids[i])))

HasDuplicate(ids) == \E i, j \in 1..Len(ids) : i < j /\ ids[i] = ids[j]

\* An IdValidator that looks for a repeated identifier before it validates
\* any item: what IdValidatorValidate must not be.
IdValidatorValidateUpFront(severity, step, ids, inner) ==
    IF HasDuplicate(ids)
    THEN Then(Log(severity, "Unique item declared twice."), Fail("DuplicateItem"))
    ELSE IdValidatorLoop(severity, step, ids, inner, 1, <<>>)

\* IdValidator::validate
IdValidatorValidate(severity, step, ids, inner) ==
    IdValidatorLoop(severity, step, ids, inner, 1, <<>>)

(***************************************************************************)
(* The configuration data model and its validators.                        *)
(***************************************************************************)
\* Module::new, Module::new_disabled, Module::with_config, set_location
Module(name, location, enabled, config) ==
    [name |-> name, location |-> location, enabled |-> enabled, config |-> config]

\* impl Id for Module
ModuleId(m) == m.name

\* HostIdentifier::new
HostIdentifierNew(port, name) == [hostname |-> name, port |-> port]

\* Host::new with set_name, set_binding, set_serving_dir and add_mod applied
Host(hostname, listen, static_dir, mods) ==
    [hostname |-> hostname, listen |-> listen, static_dir |-> static_dir, mods |-> mods]

\* impl Id for Host
HostId(h) == HostIdentifierNew(h.listen.port, h.hostname)

\* The two hostname patterns, on the names this model draws hostnames from:
\* "localhost" matches REGEX_NAME_ADDRESS_STRING, "127.0.0.1" matches both
\* patterns, "invalid@name" matches neither.
HostnameMatches(name) == name \in {"localhost", "127.0.0.1"}

\* Binding::validate: a secure binding must yield an SslAcceptor from its
\* key and certificate files.
BindingSelfValidate(b) ==
    IF b.secure THEN IsFile(Unwrap(b.key)) /\ IsFile(Unwrap(b.cert)) ELSE TRUE

\* Validator<Binding> for (): the TLS-file check of the binding.
BindingValidate(b) ==
    IF BindingSelfValidate(b) THEN VOk
    ELSE Then(Log("Critical", "Invalid binding."), Fail("Ssl"))

\* MammothInterface::on_validation of the module in the library (TestModule)
OnValidation(config) ==
    IF config = Some("test_error")
    THEN Then(Log("Debug", "Error tested successfully!"), Fail("Unknown"))
    ELSE VOk

\* Validator<Module> for PathBuf; self is the modules directory
ModuleValidate(self, item) ==
    LET filename ==
            IF IsSome(item.location) THEN Unwrap(item.location)
            ELSE Join(self, item.name \o DylibExt)
        lib == LibAt(filename)
    IN  IF IsNone(lib) THEN Fail("Io")
        ELSE Then(Mark("Library::new", 0),
             IF ~Unwrap(lib).has_version THEN Fail("Io")
             ELSE Then(Mark("__version", 0),
                  IF ~Compatible(Unwrap(lib).version)
                  THEN Then(Log("Critical", "Incompatible module version."),
                            Fail("InvalidModuleVersion"))
                  ELSE IF ~Unwrap(lib).has_construct THEN Fail("Io")
                  ELSE Then(Mark("__construct", 0),
                       Then(Mark("on_validation", 0), OnValidation(item.config)))))

\* The hostname check of Validator<Host>: the two patterns are tried on a
\* hostname that is there.
HostnameValidate(hostname) ==
    IF IsNone(hostname) THEN VOk
    ELSE Then(Mark("hostname", 0),
              IF ~HostnameMatches(Unwrap(hostname))
              THEN Then(Log("Critical", "Invalid hostname."), Fail("InvalidHostname"))
              ELSE VOk)

\* A host validation that looks at the serving directory before the
\* hostname: what HostValidate must not be.
HostValidateDirFirst(self, item) ==
    Then(Then(Mark("binding", 0), BindingValidate(item.listen)),
    Then(IF IsSome(item.static_dir)
         THEN PathValidatorValidate("Error", "ExistingDirectory", Unwrap(item.static_dir))
         ELSE VOk,
    Then(HostnameValidate(item.hostname),
         IdValidatorValidate("Critical", "module",
             [i \in 1..Len(item.mods) |-> ModuleId(item.mods[i])],
             [i \in 1..Len(item.mods) |-> ModuleValidate(self, item.mods[i])]))))

\* Validator<Host> for PathBuf; self is the modules directory
HostValidate(self, item) ==
    Then(Then(Mark("binding", 0), BindingValidate(item.listen)),
    Then(HostnameValidate(item.hostname),
    Then(IF IsSome(item.static_dir)
         THEN PathValidatorValidate("Error", "ExistingDirectory", Unwrap(item.static_dir))
         ELSE VOk,
         IdValidatorValidate("Critical", "module",
             [i \in 1..Len(item.mods) |-> ModuleId(item.mods[i])],
             [i \in 1..Len(item.mods) |-> ModuleValidate(self, item.mods[i])]))))

\* A Mammoth validation that hands an absent field to the PathValidator as
\* the empty path: what MammothValidate must not be.
MammothValidateAbsentChecked(item) ==
    Then(PathValidatorValidate("Error", "ExistingDirectory",
                               IF IsSome(item.mods_dir) THEN Unwrap(item.mods_dir) ELSE <<>>),
         PathValidatorValidate("Error", "FilePath",
                               IF IsSome(item.log_file) THEN Unwrap(item.log_file) ELSE <<>>))

\* Validator<Mammoth> for ()
MammothValidate(item) ==
    Then(IF IsSome(item.mods_dir)
         THEN PathValidatorValidate("Error", "ExistingDirectory", Unwrap(item.mods_dir))
         ELSE VOk,
         IF IsSome(item.log_file)
         THEN PathValidatorValidate("Error", "FilePath", Unwrap(item.log_file))
         ELSE VOk)

\* A list validation that asks for a modules directory even when no module
\* is declared: what ConfigValidateLists must not be.
ConfigValidateListsNeedsModsDir(item) ==
    IF IsSome(item.mammoth.mods_dir) THEN
        LET mods_dir == Unwrap(item.mammoth.mods_dir) IN
        Then(IdValidatorValidate("Critical", "module",
                 [i \in 1..Len(item.mods) |-> ModuleId(item.mods[i])],
                 [i \in 1..Len(item.mods) |-> ModuleValidate(mods_dir, item.mods[i])]),
             IdValidatorValidate("Critical", "host",
                 [i \in 1..Len(item.hosts) |-> HostId(item.hosts[i])],
                 [i \in 1..Len(item.hosts) |-> HostValidate(mods_dir, item.hosts[i])]))
    ELSE Then(Log("Critical", "Enabled modules without specifying modules directory."),
              Fail("NoModsDir"))

\* The part of the top-level validation that follows the host list check.
ConfigValidateLists(item) ==
    IF IsSome(item.mammoth.mods_dir) THEN
        LET mods_dir == Unwrap(item.mammoth.mods_dir) IN
        Then(IdValidatorValidate("Critical", "module",
                 [i \in 1..Len(item.mods) |-> ModuleId(item.mods[i])],
                 [i \in 1..Len(item.mods) |-> ModuleValidate(mods_dir, item.mods[i])]),
             IdValidatorValidate("Critical", "host",
                 [i \in 1..Len(item.hosts) |-> HostId(item.hosts[i])],
                 [i \in 1..Len(item.hosts) |-> HostValidate(mods_dir, item.hosts[i])]))
    ELSE IF item.mods # <<>>
         THEN Then(Log("Critical", "Enabled modules without specifying modules directory."),
                   Fail("NoModsDir"))
         ELSE VOk

\* Validator<ConfigurationFile> for ()
ConfigValidate(item) ==
    Then(Then(Mark("mammoth", 0), MammothValidate(item.mammoth)),
    Then(IF item.hosts = <<>>
         THEN Then(Log("Critical", "No host specified."), Fail("NoHost"))
         ELSE VOk,
         ConfigValidateLists(item)))

(***************************************************************************)
(* IdValidator on a list of items of its own: the identifiers of the items *)
(* and what the inner validator returns for each are the inputs.           *)
(***************************************************************************)
ItemIds == {"a", "b"}
InnerResults == {"Ok", "Unknown"}

\* The inner validator V of IdValidator<I, V>, by what it returns for an item;
\* like TestModule::on_validation it logs before it fails.
InnerValidate(r) ==
    IF r = "Ok" THEN VOk ELSE Then(Log("Debug", "Item rejected."), Fail(r))

IdvIdle == idv = [phase |-> "idle"]

IdvInputs ==
    UNION {{[phase |-> "input", severity |-> s, ids |-> ids, inner |-> inner] :
               s \in Severities, inner \in [1..Len(ids) -> InnerResults]} :
           ids \in SeqsUpTo(ItemIds, MaxItems)}

IdvValidate ==
    /\ idv.phase = "input"
    /\ idv' = [phase |-> "done", severity |-> idv.severity, ids |-> idv.ids,
               inner |-> idv.inner,
               out |-> IdValidatorValidate(idv.severity, "inner", idv.ids,
                           [i \in 1..Len(idv.ids) |-> InnerValidate(idv.inner[i])])]
    /\ UNCHANGED notIdvVars

(***************************************************************************)
(* The top-level validation of a ConfigurationFile.                        *)
(***************************************************************************)
ModsDirs == {None, Some(<<".", "/", "mods", "/">>), Some(<<"nowhere", "/">>)}
LogFiles == {None, Some(<<"mammoth.log">>), Some(<<"logs", "/">>)}

ConfigModules ==
    {Module("mod_test", None, TRUE, None),
     Module("mod_test", None, TRUE, Some("test_error")),
     Module("mod_gone", None, FALSE, None)}

ConfigHosts ==
    {Host(None, BindingNew(8080), None, <<>>),
     Host(Some("localhost"), BindingNew(8080), None, <<>>),
     Host(None, BindingNew(8088), None, <<Module("mod_test", None, TRUE, None)>>),
     Host(Some("invalid@name"), BindingNew(8088), Some(<<"www">>), <<>>),
     Host(None, BindingWithSecurity(8443, <<".", "/", "err_cert.pem">>,
                                    <<".", "/", "err_key.pem">>), None, <<>>)}

Platforms == {"windows", "linux"}

CfgIdle == cfg = [phase |-> "idle"] /\ vres = VOk /\ target_os = "windows"

ConfigInputs ==
    {[phase |-> "input",
      mammoth |-> [mods_dir |-> d, log_file |-> l],
      hosts |-> hs, mods |-> ms] :
        d \in ModsDirs, l \in LogFiles,
        hs \in SeqsUpTo(ConfigHosts, MaxHosts),
        ms \in SeqsUpTo(ConfigModules, MaxMods)}

\* ().validate(&mut events, &configuration) on an empty Vec<Event>
CfgValidate ==
    /\ cfg.phase = "input"
    /\ cfg' = [cfg EXCEPT !.phase = "done"]
    /\ vres' = ConfigValidate(cfg)
    /\ UNCHANGED notCfgVars

(***************************************************************************)
(* The module loader (src/src/loaded/library.rs) and Module::load_into.    *)
(* A native library handle is the index of its entry in native, an         *)
(* interface is the index of its entry in ifaces.                          *)
(***************************************************************************)
\* LoadedModuleSet::new
LoadedModuleSetNew(default_path) ==
    [default_path |-> default_path, libraries |-> <<>>, modules |-> <<>>]

\* LoadedModuleSet::lib_path
LibPath(set, name) == Join(set.default_path, name \o ".dll")

\* A load that does not look the path up in the set and opens the native
\* library every time: what SetLoad must not be.
SetLoadNoLookup(set, nat, path) ==
    IF IsNone(LibAt(path))
    THEN [set |-> set, native |-> nat, res |-> "Io", lib |-> None]
    ELSE LET loaded == [path |-> path, library |-> Len(nat) + 1] IN
         [set |-> [set EXCEPT !.libraries = Append(@, loaded)],
          native |-> Append(nat, [path |-> path, file |-> Canon(path)]),
          res |-> "Ok", lib |-> Some(loaded)]

\* A load that keeps an entry for a library it could not open: what SetLoad
\* must not be.
SetLoadKeepsFailed(set, nat, path) ==
    LET found == {i \in 1..Len(set.libraries) : PathEq(set.libraries[i].path, path)}
        loaded == [path |-> path, library |-> Len(nat) + 1]
    IN  IF found # {}
        THEN [set |-> set, native |-> nat, res |-> "Ok",
              lib |-> Some(set.libraries[CHOOSE i \in found : \A j \in found : i <= j])]
        ELSE IF IsNone(LibAt(path))
        THEN [set |-> [set EXCEPT !.libraries = Append(@, loaded)], native |-> nat,
              res |-> "Io", lib |-> None]
        ELSE [set |-> [set EXCEPT !.libraries = Append(@, loaded)],
              native |-> Append(nat, [path |-> path, file |-> Canon(path)]),
              res |-> "Ok", lib |-> Some(loaded)]

\* LoadedModuleSet::load: the set and the native libraries after the call,
\* the result and the Arc<LoadedLibrary> returned.
SetLoad(set, nat, path) ==
    LET found == {i \in 1..Len(set.libraries) : PathEq(set.libraries[i].path, path)}
    IN  IF found # {}
        THEN [set |-> set, native |-> nat, res |-> "Ok",
              lib |-> Some(set.libraries[CHOOSE i \in found : \A j \in found : i <= j])]
        ELSE IF IsNone(LibAt(path))
        THEN [set |-> set, native |-> nat, res |-> "Io", lib |-> None]
        ELSE LET loaded == [path |-> path, library |-> Len(nat) + 1] IN
             [set |-> [set EXCEPT !.libraries = Append(@, loaded)],
              native |-> Append(nat, [path |-> path, file |-> Canon(path)]),
              res |-> "Ok", lib |-> Some(loaded)]

\* LoadedModuleSet::insert
SetInsert(set, name, interface) ==
    [set EXCEPT !.modules = Append(@, [library |-> name, interface |-> interface])]

\* constructor(configuration): the interface __construct returns, built by
\* the library behind the handle
Construct(handle, self) ==
    [library |-> handle, module |-> self, on_load |-> 0, on_shutdown |-> 0]

\* An on_load that is not called: what OnLoad must not be.
OnLoadSkipped(interface) == interface

\* interface.on_load()
OnLoad(interface) == [interface EXCEPT !.on_load = @ + 1]

\* Module::load_into: the set, the native libraries and the interfaces after
\* the call, the result (with the versions an InvalidModuleVersion carries),
\* and the steps taken in order.
ModuleLoadInto(self, set, nat, ifs) ==
    LET lib_path ==
            IF IsSome(self.location) THEN Unwrap(self.location)
            ELSE LibPath(set, self.name)
        l == SetLoad(set, nat, lib_path)
        out(res, err, trace) ==
            [set |-> l.set, native |-> l.native, ifaces |-> ifs, res |-> res,
             err |-> err, path |-> lib_path, trace |-> trace]
    IN  IF l.res # "Ok" THEN out(l.res, None, <<>>)
        ELSE LET library == Unwrap(LibAt(Unwrap(l.lib).path)) IN
            IF ~library.has_version THEN out("Io", None, <<"load">>)
            ELSE IF ~Compatible(library.version)
            THEN out("InvalidModuleVersion",
                     Some([found |-> library.version, required |-> CompatibilityReq]),
                     <<"load", "__version", "compatible">>)
            ELSE IF ~library.has_construct
            THEN out("Io", None, <<"load", "__version", "compatible">>)
            ELSE LET interface == OnLoad(Construct(Unwrap(l.lib).library, self))
                 IN  [set |-> SetInsert(l.set, self.name, Len(ifs) + 1),
                      native |-> l.native,
                      ifaces |-> Append(ifs, interface),
                      res |-> "Ok",
                      err |-> None,
                      path |-> lib_path,
                      trace |-> <<"load", "__version", "compatible", "__construct",
                                  "on_load", "insert">>]

LoaderModules ==
    {Module("mod_test", None, TRUE, None),
     Module("mod_test", None, FALSE, None),
     Module("mod_alias", Some(<<"mods", "/", "mod_test.dll">>), TRUE, None),
     Module("mod_dot", Some(<<".", "/", "mods", "/", "mod_test.dll">>), TRUE, None),
     Module("mod_old", None, TRUE, None),
     Module("mod_nosym", None, TRUE, None),
     Module("mod_nover", None, TRUE, None),
     Module("mod_gone", None, FALSE, None)}

LoaderPaths ==
    {<<"mods", "/", "mod_test.dll">>,
     <<".", "/", "mods", "/", "mod_test.dll">>,
     <<"mods", "/", "mod_gone.dll">>}

LoaderIdle ==
    /\ mod_set = LoadedModuleSetNew(<<"mods", "/">>)
    /\ native = <<>>
    /\ ifaces = <<>>
    /\ lastload = [n |-> 0, op |-> "none", module |-> None, path |-> None,
                   res |-> "Ok", err |-> None, lib |-> None, out |-> VOk, trace |-> <<>>]

\* module.load_into(&mut mod_set)
LLoadInto ==
    \E m \in LoaderModules :
        LET r == ModuleLoadInto(m, mod_set, native, ifaces) IN
        /\ teardown.phase = "live"
        /\ lastload.n < MaxLoads
        /\ mod_set' = r.set
        /\ native' = r.native
        /\ ifaces' = r.ifaces
        /\ lastload' = [n |-> lastload.n + 1, op |-> "load_into", module |-> Some(m),
                        path |-> Some(r.path), res |-> r.res, err |-> r.err,
                        lib |-> None,
                        out |-> VOk, trace |-> r.trace]
        /\ UNCHANGED notLoaderVars

\* mod_set.load(path)
LLoad ==
    \E path \in LoaderPaths :
        LET r == SetLoad(mod_set, native, path) IN
        /\ teardown.phase = "live"
        /\ lastload.n < MaxLoads
        /\ mod_set' = r.set
        /\ native' = r.native
        /\ lastload' = [n |-> lastload.n + 1, op |-> "load", module |-> None,
                        path |-> Some(path), res |-> r.res, err |-> None,
                        lib |-> r.lib,
                        out |-> VOk, trace |-> <<>>]
        /\ UNCHANGED <<ifaces, notLoaderVars>>

\* mod_set's directory validating a module: default_path.validate(logger, &module)
LValidate ==
    \E m \in LoaderModules :
        LET v == ModuleValidate(mod_set.default_path, m) IN
        /\ teardown.phase = "live"
        /\ lastload.n < MaxLoads
        /\ lastload' = [n |-> lastload.n + 1, op |-> "validate", module |-> Some(m),
                        path |-> None, res |-> v.res, err |-> None, lib |-> None,
                        out |-> v, trace |-> <<>>]
        /\ UNCHANGED <<mod_set, native, ifaces, notLoaderVars>>

(***************************************************************************)
(* Dropping the LoadedModuleSet.  The struct has no Drop impl, so its      *)
(* fields are dropped in the order of their declaration (default_path,     *)
(* libraries, modules) and the elements of a Vec from the first to the     *)
(* last.  The set holds the only Arc of each LoadedLibrary (load_into and  *)
(* the callers of load drop theirs when they return), so dropping an       *)
(* element of libraries drops its Library, which closes the handle.        *)
(* Dropping an element of modules releases its interface.                  *)
(***************************************************************************)
TeardownIdle == teardown = [phase |-> "live", i |-> 0, closed |-> {}, released |-> {}]

\* drop(mod_set) begins: default_path is dropped, libraries is next
TDropBegin ==
    /\ teardown.phase = "live"
    /\ lastload.n > 0
    /\ teardown' = [teardown EXCEPT !.phase = "libraries", !.i = 1]
    /\ UNCHANGED notTeardownVars

\* the next Arc<LoadedLibrary> of libraries is dropped: Library::drop closes
\* its handle
TDropLibrary ==
    /\ teardown.phase = "libraries"
    /\ teardown.i <= Len(mod_set.libraries)
    /\ teardown' = [teardown EXCEPT
           !.closed = @ \cup {mod_set.libraries[teardown.i].library},
           !.i = @ + 1]
    /\ UNCHANGED notTeardownVars

\* libraries is dropped, modules is next
TDropModulesBegin ==
    /\ teardown.phase = "libraries"
    /\ teardown.i > Len(mod_set.libraries)
    /\ teardown' = [teardown EXCEPT !.phase = "modules", !.i = 1]
    /\ UNCHANGED notTeardownVars

\* the next Arc<LoadedModule> of modules is dropped: its interface is released
TDropModule ==
    /\ teardown.phase = "modules"
    /\ teardown.i <= Len(mod_set.modules)
    /\ teardown' = [teardown EXCEPT
           !.released = @ \cup {mod_set.modules[teardown.i].interface},
           !.i = @ + 1]
    /\ UNCHANGED notTeardownVars

\* modules is dropped: the set is gone
TDropEnd ==
    /\ teardown.phase = "modules"
    /\ teardown.i > Len(mod_set.modules)
    /\ teardown' = [teardown EXCEPT !.phase = "dropped"]
    /\ UNCHANGED notTeardownVars

\* The operating system unloads a library file when the last handle opened
\* for it is closed.
Unloaded(file) ==
    LET handles == {h \in 1..Len(native) : native[h].file = file}
    IN  handles # {} /\ handles \subseteq teardown.closed

(***************************************************************************)
(* Editing the host and module lists of a ConfigurationFile                *)
(* (src/src/config.rs) and the module list of a Host                       *)
(* (src/src/config/host.rs).                                               *)
(***************************************************************************)
MaxEdits == 3

\* A comparison of the ports alone: what HostIs must not be.
HostIsSamePort(h, id) == h.listen.port = id.port

\* Host::is
HostIs(h, id) == h.listen.port = id.port /\ h.hostname = id.hostname

\* ConfigurationFile::add_host
AddHost(c, host) == [c EXCEPT !.hosts = Append(@, host)]

\* ConfigurationFile::remove_host
RemoveHost(c, id) == [c EXCEPT !.hosts = SelectSeq(@, LAMBDA h : ~HostIs(h, id))]

\* ConfigurationFile::has_host
HasHost(c, id) == \E i \in 1..Len(c.hosts) : HostIs(c.hosts[i], id)

\* ConfigurationFile::add_mod
AddMod(c, module) == [c EXCEPT !.mods = Append(@, module)]

\* ConfigurationFile::remove_mod
RemoveMod(c, name) == [c EXCEPT !.mods = SelectSeq(@, LAMBDA m : m.name # name)]

\* ConfigurationFile::has_module
HasModule(c, name) == \E i \in 1..Len(c.mods) : c.mods[i].name = name

\* Host::remove_mod
HostRemoveMod(h, name) == [h EXCEPT !.mods = SelectSeq(@, LAMBDA m : m.name # name)]

\* Host::has_module
HostHasModule(h, name) == \E i \in 1..Len(h.mods) : h.mods[i].name = name

HostA == Host(None, BindingNew(8080), None, <<>>)
HostB == Host(None, BindingNew(8080), Some(<<"www">>),
              <<Module("mod_dummy", None, TRUE, None), Module("mod_test", None, TRUE, None)>>)
HostC == Host(Some("localhost"), BindingNew(8080), None, <<>>)
HostD == Host(None, BindingNew(8088), None, <<>>)

EditHosts == {HostA, HostB, HostC, HostD}

EditHostIds ==
    {HostIdentifierNew(8080, None), HostIdentifierNew(8080, Some("localhost")),
     HostIdentifierNew(8080, Some("0.0.0.0")), HostIdentifierNew(8088, None)}

EditModules ==
    {Module("mod_test", None, TRUE, None),
     Module("mod_test", None, FALSE, None),
     Module("mod_dummy", None, TRUE, None)}

EditModuleNames == {"mod_test", "mod_dummy", "mod_nope"}

\* The lists a ConfigurationFile has after deserialization: serde fills
\* them without any check of the identities.
EditInputs ==
    {[hosts |-> hs, mods |-> ms] :
        hs \in {<<>>, <<HostC, HostA, HostD>>, <<HostA, HostC, HostB>>},
        ms \in {<<>>,
                <<Module("mod_test", None, TRUE, None), Module("mod_dummy", None, TRUE, None)>>,
                <<Module("mod_dummy", None, TRUE, None), Module("mod_test", None, TRUE, None),
                  Module("mod_test", None, FALSE, None)>>}}

EditIdle ==
    /\ conf = [hosts |-> <<>>, mods |-> <<>>]
    /\ lastedit = [n |-> 0, op |-> "none", arg |-> None, at |-> 0, res |-> FALSE,
                   before |-> [hosts |-> <<>>, mods |-> <<>>]]

Edited(op, arg, at, res) ==
    [n |-> lastedit.n + 1, op |-> op, arg |-> Some(arg), at |-> at, res |-> res,
     before |-> conf]

\* configuration.add_host(host)
EAddHost ==
    \E host \in EditHosts :
        /\ lastedit.n < MaxEdits
        /\ conf' = AddHost(conf, host)
        /\ lastedit' = Edited("add_host", host, 0, FALSE)
        /\ UNCHANGED notEditVars

\* configuration.remove_host(id)
ERemoveHost ==
    \E id \in EditHostIds :
        /\ lastedit.n < MaxEdits
        /\ conf' = RemoveHost(conf, id)
        /\ lastedit' = Edited("remove_host", id, 0, FALSE)
        /\ UNCHANGED notEditVars

\* configuration.has_host(id)
EHasHost ==
    \E id \in EditHostIds :
        /\ lastedit.n < MaxEdits
        /\ conf' = conf
        /\ lastedit' = Edited("has_host", id, 0, HasHost(conf, id))
        /\ UNCHANGED notEditVars

\* configuration.add_mod(module)
EAddMod ==
    \E module \in EditModules :
        /\ lastedit.n < MaxEdits
        /\ conf' = AddMod(conf, module)
        /\ lastedit' = Edited("add_mod", module, 0, FALSE)
        /\ UNCHANGED notEditVars

\* configuration.remove_mod(name)
ERemoveMod ==
    \E name \in EditModuleNames :
        /\ lastedit.n < MaxEdits
        /\ conf' = RemoveMod(conf, name)
        /\ lastedit' = Edited("remove_mod", name, 0, FALSE)
        /\ UNCHANGED notEditVars

\* configuration.has_module(name)
EHasModule ==
    \E name \in EditModuleNames :
        /\ lastedit.n < MaxEdits
        /\ conf' = conf
        /\ lastedit' = Edited("has_module", name, 0, HasModule(conf, name))
        /\ UNCHANGED notEditVars

\* configuration.hosts_mut()[at].remove_mod(name)
EHostRemoveMod ==
    \E at \in 1..Len(conf.hosts), name \in EditModuleNames :
        /\ lastedit.n < MaxEdits
        /\ conf' = [conf EXCEPT !.hosts[at] = HostRemoveMod(@, name)]
        /\ lastedit' = Edited("host_remove_mod", name, at, FALSE)
        /\ UNCHANGED notEditVars

\* configuration.hosts()[at].has_module(name)
EHostHasModule ==
    \E at \in 1..Len(conf.hosts), name \in EditModuleNames :
        /\ lastedit.n < MaxEdits
        /\ conf' = conf
        /\ lastedit' = Edited("host_has_module", name, at, HostHasModule(conf.hosts[at], name))
        /\ UNCHANGED notEditVars

(***************************************************************************)
(* Concurrent callers of LoadedModuleSet::load.  load takes &mut self, so  *)
(* a caller runs it only while it holds the exclusive borrow of the set    *)
(* (callers on several threads reach the set through a lock that hands out *)
(* that borrow).  The steps of load are taken one at a time.               *)
(***************************************************************************)
MaxCallers == 3
Callers == 1..MaxCallers

\* A borrow handed out although another caller holds one: what the borrow
\* rules exclude.
CanBorrowMutAliased(holder) == TRUE

\* &mut self: the borrow is exclusive
CanBorrowMut(holder) == IsNone(holder)

CallerIdle == [pc |-> "idle", path |-> None, found |-> None, res |-> "none", lib |-> None]

ConcIdle ==
    /\ callers = [c \in Callers |-> CallerIdle]
    /\ borrow = None

\* mod_set.load(path) entered: let path = path.as_ref()
CLoadBegin(c) ==
    \E path \in LoaderPaths :
        /\ callers[c].pc = "idle"
        /\ CanBorrowMut(borrow)
        /\ borrow' = Some(c)
        /\ callers' = [callers EXCEPT ![c] = [@ EXCEPT !.pc = "find", !.path = Some(path)]]
        /\ UNCHANGED <<mod_set, native, notConcVars>>

\* let lib = self.libraries.iter().find(|e| e.path == path)
CLoadFind(c) ==
    /\ callers[c].pc = "find"
    /\ LET found == {i \in 1..Len(mod_set.libraries) :
                        PathEq(mod_set.libraries[i].path, Unwrap(callers[c].path))}
       IN  callers' = [callers EXCEPT ![c] =
               IF found # {}
               THEN [@ EXCEPT !.pc = "return", !.res = "Ok",
                              !.lib = Some(mod_set.libraries[
                                  CHOOSE i \in found : \A j \in found : i <= j])]
               ELSE [@ EXCEPT !.pc = "open"]]
    /\ UNCHANGED <<borrow, mod_set, native, notConcVars>>

\* let library = Library::new(path)?
CLoadOpen(c) ==
    /\ callers[c].pc = "open"
    /\ LET path == Unwrap(callers[c].path) IN
       IF IsNone(LibAt(path))
       THEN /\ callers' = [callers EXCEPT ![c] = [@ EXCEPT !.pc = "return", !.res = "Io"]]
            /\ native' = native
       ELSE /\ native' = Append(native, [path |-> path, file |-> Canon(path)])
            /\ callers' = [callers EXCEPT ![c] =
                   [@ EXCEPT !.pc = "push",
                             !.found = Some([path |-> path, library |-> Len(native) + 1])]]
    /\ UNCHANGED <<borrow, mod_set, notConcVars>>

\* self.libraries.push(loaded.clone())
CLoadPush(c) ==
    /\ callers[c].pc = "push"
    /\ mod_set' = [mod_set EXCEPT !.libraries = Append(@, Unwrap(callers[c].found))]
    /\ callers' = [callers EXCEPT ![c] =
           [@ EXCEPT !.pc = "return", !.res = "Ok", !.lib = callers[c].found]]
    /\ UNCHANGED <<borrow, native, notConcVars>>

\* load returns: the borrow of the set ends
CLoadReturn(c) ==
    /\ callers[c].pc = "return"
    /\ borrow' = IF borrow = Some(c) THEN None ELSE borrow
    /\ callers' = [callers EXCEPT ![c] = [@ EXCEPT !.pc = "done"]]
    /\ UNCHANGED <<mod_set, native, notConcVars>>

(***************************************************************************)
(* The Host: its setters, its identifier and its validation. A behaviour   *)
(* follows one Host value through at most MaxHostOps setter calls;         *)
(* lasthost.port and lasthost.name are the listen port and the hostname    *)
(* the constructor and the setters were last given.                        *)
(***************************************************************************)
MaxHostOps == 2

\* Host::new
HostNew(port) == Host(None, BindingNew(port), None, <<>>)

\* An identifier that forgets the hostname: what HostIdentifier must not be.
HostIdentifierPortOnly(h) == HostIdentifierNew(h.listen.port, None)

\* Host::identifier
HostIdentifier(h) == HostIdentifierNew(h.listen.port, h.hostname)

\* Host::set_name, Host::clear_name, Host::set_binding
HostSetName(h, name) == [h EXCEPT !.hostname = Some(name)]
HostClearName(h) == [h EXCEPT !.hostname = None]
HostSetBinding(h, b) == [h EXCEPT !.listen = b]

\* Host::binding_mut followed by Binding::set_port
HostBindingMutSetPort(h, port) == [h EXCEPT !.listen = BindingSetPort(@, port)]

HostNames == {"localhost", "invalid@name"}
HostPorts == {8080, 8443}
HostBindings ==
    {BindingNew(8080),
     BindingWithSecurity(8443, <<"tests", "/", "test_cert.pem">>,
                               <<"tests", "/", "test_key.pem">>),
     BindingWithSecurity(8443, <<".", "/", "err_cert.pem">>, <<".", "/", "err_key.pem">>)}
HostDirs == {None, Some(<<"www">>), Some(<<"nowhere">>)}
HostMods ==
    {<<>>,
     <<Module("mod_test", None, TRUE, None), Module("mod_test", None, TRUE, None)>>,
     <<Module("mod_gone", None, TRUE, None)>>}
HostIdInputs == {HostIdentifierNew(p, n) : p \in HostPorts, n \in {None, Some("localhost")}}

\* The hosts a behaviour starts from: Host::new with set_name, set_binding,
\* set_serving_dir and add_mod applied.
HostInputs ==
    {Host(n, b, d, m) : n \in {None} \cup {Some(x) : x \in HostNames},
                        b \in HostBindings, d \in HostDirs, m \in HostMods}

HostCall(n, op, port, name, arg, res) ==
    [n |-> n, op |-> op, port |-> port, name |-> name, arg |-> arg, res |-> res]

HostIdle ==
    /\ the_host = HostNew(8080)
    /\ lasthost = HostCall(0, "none", 8080, None, None, None)

HSetName ==
    \E name \in HostNames :
        /\ lasthost.n < MaxHostOps
        /\ the_host' = HostSetName(the_host, name)
        /\ lasthost' = HostCall(lasthost.n + 1, "set_name", lasthost.port, Some(name),
                                Some(name), None)
        /\ UNCHANGED notHostVars

HClearName ==
    /\ lasthost.n < MaxHostOps
    /\ the_host' = HostClearName(the_host)
    /\ lasthost' = HostCall(lasthost.n + 1, "clear_name", lasthost.port, None, None, None)
    /\ UNCHANGED notHostVars

HSetBinding ==
    \E b \in HostBindings :
        /\ lasthost.n < MaxHostOps
        /\ the_host' = HostSetBinding(the_host, b)
        /\ lasthost' = HostCall(lasthost.n + 1, "set_binding", b.port, lasthost.name,
                                Some(b), None)
        /\ UNCHANGED notHostVars

HSetPort ==
    \E p \in HostPorts :
        /\ lasthost.n < MaxHostOps
        /\ the_host' = HostBindingMutSetPort(the_host, p)
        /\ lasthost' = HostCall(lasthost.n + 1, "set_port", p, lasthost.name, Some(p), None)
        /\ UNCHANGED notHostVars

\* The queries leave the Host as it is.
HIdentifier ==
    /\ lasthost' = [lasthost EXCEPT !.op = "identifier", !.arg = None,
                                    !.res = Some(HostIdentifier(the_host))]
    /\ UNCHANGED <<the_host, notHostVars>>

HId ==
    /\ lasthost' = [lasthost EXCEPT !.op = "id", !.arg = None, !.res = Some(HostId(the_host))]
    /\ UNCHANGED <<the_host, notHostVars>>

HIs ==
    \E id \in HostIdInputs :
        /\ lasthost' = [lasthost EXCEPT !.op = "is", !.arg = Some(id),
                                        !.res = Some(HostIs(the_host, id))]
        /\ UNCHANGED <<the_host, notHostVars>>

\* Validator<Host>::validate with the modules directory "mods/"
HValidate ==
    /\ lasthost' = [lasthost EXCEPT !.op = "validate", !.arg = None,
                                    !.res = Some(HostValidate(<<"mods", "/">>, the_host))]
    /\ UNCHANGED <<the_host, notHostVars>>

(***************************************************************************)
(* The severity-parameterised validators on inputs of their own: a         *)
(* PathValidator of every severity and kind on a path, and an IdValidator  *)
(* of every severity on a list of identifiers whose items the inner        *)
(* validator accepts.                                                      *)
(***************************************************************************)
PathValidatorKinds == {"ExistingDirectory", "ExistingFile", "FilePath"}

PvPaths ==
    {<<"www">>, <<"www", "/">>, <<"www", "\\">>,
     <<"mods", "/", "mod_test.dll">>, <<"mods", "/", "mod_test.dll", "/">>,
     <<"nowhere.log">>, <<"nowhere", "/">>}

PvIdLists == {<<"a", "b">>, <<"a", "a">>, <<"a", "b", "a">>}

PvIdle == pv = [phase |-> "idle"]

PvInputs ==
    {[phase |-> "input", validator |-> "PathValidator", severity |-> s, kind |-> k,
      item |-> p, ids |-> <<>>, out |-> VOk] :
        s \in Severities, k \in PathValidatorKinds, p \in PvPaths}
    \cup
    {[phase |-> "input", validator |-> "IdValidator", severity |-> s, kind |-> "none",
      item |-> <<>>, ids |-> ids, out |-> VOk] :
        s \in Severities, ids \in PvIdLists}

\* PathValidator(severity, kind).validate(logger, item) on an empty logger
PvValidate ==
    /\ pv.phase = "input" /\ pv.validator = "PathValidator"
    /\ pv' = [pv EXCEPT !.phase = "done",
                        !.out = PathValidatorValidate(pv.severity, pv.kind, pv.item)]
    /\ UNCHANGED notPvVars

\* IdValidator(severity, inner).validate(logger, ids) on an empty logger
PvIdValidate ==
    /\ pv.phase = "input" /\ pv.validator = "IdValidator"
    /\ pv' = [pv EXCEPT !.phase = "done",
                        !.out = IdValidatorValidate(pv.severity, "inner", pv.ids,
                                                    [i \in 1..Len(pv.ids) |-> VOk])]
    /\ UNCHANGED notPvVars

(***************************************************************************)
(* The logger shared between threads: an Arc<RwLock<Logger>> over a        *)
(* Vec<Event>. Each thread is one implementor of Log that makes one call   *)
(* of Log::log; a thread may have no logger registered. The push of the    *)
(* Vec is two steps, the read of its length and the store of the element   *)
(* at the end with the new length.                                         *)
(***************************************************************************)
MaxThreads == 3
Threads == 1..MaxThreads

\* A lock that lets a writer in while another holds it: what the RwLock
\* excludes.
CanWriteLockShared(holder) == TRUE

\* RwLock::write: granted when nobody holds the lock
CanWriteLock(holder) == IsNone(holder)

\* The event thread t logs
LogEvent(t) == Event("Debug", <<"thread", t>>)

ThreadIdle(registered) == [pc |-> "idle", registered |-> registered, len |-> 0, saw |-> None]

LogIdle ==
    /\ logger = <<>>
    /\ wlock = None
    /\ threads = [t \in Threads |-> ThreadIdle(FALSE)]

\* Log::log, `if let Some(logger) = self.retrieve_logger()`: without a
\* logger the call returns at once, whoever holds the lock.
TLogRetrieve(t) ==
    /\ threads[t].pc = "idle"
    /\ threads' = [threads EXCEPT ![t] =
                       IF @.registered THEN [@ EXCEPT !.pc = "lock"]
                       ELSE [@ EXCEPT !.pc = "done", !.saw = Some(wlock)]]
    /\ UNCHANGED <<logger, wlock, notLogVars>>

\* logger.write().unwrap(): blocks until the write lock is granted
TLogLock(t) ==
    /\ threads[t].pc = "lock"
    /\ CanWriteLock(wlock)
    /\ wlock' = Some(t)
    /\ threads' = [threads EXCEPT ![t] = [@ EXCEPT !.pc = "read"]]
    /\ UNCHANGED <<logger, notLogVars>>

\* alr.log(sev, desc), Vec::push: the length is read
TLogPushRead(t) ==
    /\ threads[t].pc = "read"
    /\ threads' = [threads EXCEPT ![t] = [@ EXCEPT !.pc = "store", !.len = Len(logger)]]
    /\ UNCHANGED <<logger, wlock, notLogVars>>

\* alr.log(sev, desc), Vec::push: the event is stored after the elements
\* counted and the length is set
TLogPushStore(t) ==
    /\ threads[t].pc = "store"
    /\ logger' = SubSeq(logger, 1, threads[t].len) \o <<LogEvent(t)>>
    /\ threads' = [threads EXCEPT ![t] = [@ EXCEPT !.pc = "unlock"]]
    /\ UNCHANGED <<wlock, notLogVars>>

\* The guard alr goes out of scope: the write lock is released
TLogUnlock(t) ==
    /\ threads[t].pc = "unlock"
    /\ wlock' = IF wlock = Some(t) THEN None ELSE wlock
    /\ threads' = [threads EXCEPT ![t] = [@ EXCEPT !.pc = "done"]]
    /\ UNCHANGED <<logger, notLogVars>>

(***************************************************************************)
(* The specifications: one per part of the program.                        *)
(***************************************************************************)
OtherIdle == ConcIdle /\ TeardownIdle /\ EditIdle /\ HostIdle /\ PvIdle /\ LogIdle

InitBinding == BindingIdle /\ IdvIdle /\ CfgIdle /\ LoaderIdle /\ OtherIdle
NextBinding ==
    \/ BNew
    \/ BWithSecurity
    \/ BFrom
    \/ BSetPort
    \/ BSetSecurity
    \/ BClearSecurity
    \/ BDeserializeMap
    \/ BDeserializeInt
SpecBinding == InitBinding /\ [][NextBinding]_vars

InitIdv == BindingIdle /\ idv \in IdvInputs /\ CfgIdle /\ LoaderIdle /\ OtherIdle
NextIdv == IdvValidate
SpecIdv == InitIdv /\ [][NextIdv]_vars

InitConfig ==
    /\ BindingIdle /\ IdvIdle /\ LoaderIdle /\ OtherIdle
    /\ cfg \in ConfigInputs
    /\ vres = VOk
    /\ target_os \in Platforms
NextConfig == CfgValidate
SpecConfig == InitConfig /\ [][NextConfig]_vars

InitLoader ==
    /\ BindingIdle /\ IdvIdle /\ LoaderIdle /\ OtherIdle
    /\ cfg = [phase |-> "idle"]
    /\ vres = VOk
    /\ target_os \in Platforms
NextLoader == LLoadInto \/ LLoad \/ LValidate
SpecLoader == InitLoader /\ [][NextLoader]_vars

InitConcurrent == InitLoader
NextConcurrent ==
    \E c \in Callers :
        \/ CLoadBegin(c)
        \/ CLoadFind(c)
        \/ CLoadOpen(c)
        \/ CLoadPush(c)
        \/ CLoadReturn(c)
SpecConcurrent == InitConcurrent /\ [][NextConcurrent]_vars

InitEdit ==
    /\ BindingIdle /\ IdvIdle /\ CfgIdle /\ LoaderIdle /\ ConcIdle /\ TeardownIdle
    /\ HostIdle /\ PvIdle /\ LogIdle
    /\ conf \in EditInputs
    /\ lastedit = [n |-> 0, op |-> "none", arg |-> None, at |-> 0, res |-> FALSE,
                   before |-> conf]
NextEdit ==
    \/ EAddHost
    \/ ERemoveHost
    \/ EHasHost
    \/ EAddMod
    \/ ERemoveMod
    \/ EHasModule
    \/ EHostRemoveMod
    \/ EHostHasModule
SpecEdit == InitEdit /\ [][NextEdit]_vars

InitTeardown == InitLoader
NextTeardown ==
    \/ LLoadInto
    \/ LLoad
    \/ TDropBegin
    \/ TDropLibrary
    \/ TDropModulesBegin
    \/ TDropModule
    \/ TDropEnd
SpecTeardown == InitTeardown /\ [][NextTeardown]_vars

InitHost ==
    /\ BindingIdle /\ IdvIdle /\ LoaderIdle /\ ConcIdle /\ TeardownIdle /\ EditIdle
    /\ PvIdle /\ LogIdle
    /\ cfg = [phase |-> "idle"]
    /\ vres = VOk
    /\ target_os \in Platforms
    /\ the_host \in HostInputs
    /\ lasthost = HostCall(0, "none", the_host.listen.port, the_host.hostname, None, None)
NextHost ==
    \/ HSetName
    \/ HClearName
    \/ HSetBinding
    \/ HSetPort
    \/ HIdentifier
    \/ HId
    \/ HIs
    \/ HValidate
SpecHost == InitHost /\ [][NextHost]_vars

InitSeverity ==
    /\ BindingIdle /\ IdvIdle /\ LoaderIdle /\ ConcIdle /\ TeardownIdle /\ EditIdle
    /\ HostIdle /\ LogIdle
    /\ cfg = [phase |-> "idle"]
    /\ vres = VOk
    /\ target_os \in Platforms
    /\ pv \in PvInputs
NextSeverity == PvValidate \/ PvIdValidate
SpecSeverity == InitSeverity /\ [][NextSeverity]_vars

InitLogger ==
    /\ BindingIdle /\ IdvIdle /\ CfgIdle /\ LoaderIdle /\ ConcIdle /\ TeardownIdle /\ EditIdle
    /\ HostIdle /\ PvIdle
    /\ logger = <<>>
    /\ wlock = None
    /\ threads \in [Threads -> {ThreadIdle(r) : r \in BOOLEAN}]
NextLogger ==
    \E t \in Threads :
        \/ TLogRetrieve(t)
        \/ TLogLock(t)
        \/ TLogPushRead(t)
        \/ TLogPushStore(t)
        \/ TLogUnlock(t)
SpecLogger == InitLogger /\ [][NextLogger]_vars

Init == InitBinding
Next == NextBinding
Spec == SpecBinding

(***************************************************************************)
(* Claims about the validators.                                            *)
(***************************************************************************)
\* The index of the first item whose identifier an earlier item has.
FirstDuplicate(ids) ==
    CHOOSE j \in 1..Len(ids) :
        /\ \E i \in 1..(j - 1) : ids[i] = ids[j]
        /\ \A k \in 1..(j - 1) : ~(\E i \in 1..(k - 1) : ids[i] = ids[k])

\* The steps of IdValidator on items 1..n that the inner validator accepts.
InnerCalls(n) == [i \in 1..n |-> StepOf("inner", i, "")]

DuplicateReport ==
    <<StepOf("log", 0, "Unique item declared twice."), StepOf("err", 0, "DuplicateItem")>>

\* C1, as stated: whenever two items of the list share an identifier,
\* IdValidator's validate fails with DuplicateItem, after the inner validator
\* was given every item before the first repeated one, in order.
C1_DuplicateAlwaysReported ==
    (idv.phase = "done" /\ HasDuplicate(idv.ids)) =>
        /\ idv.out.res = "DuplicateItem"
        /\ idv.out.trace = InnerCalls(FirstDuplicate(idv.ids) - 1) \o DuplicateReport

\* C1, amended: when two items share an identifier validate fails. Items are
\* taken in declared order: if the inner validator accepts every item before
\* the first repeated identifier, each of them was passed to it, in order,
\* and then the duplicate is logged at the configured severity and reported
\* as DuplicateItem; if it rejects one of them, validation stops at the first
\* such item with the inner validator's error and no duplicate is reported.
C1_DuplicateReportedInOrder ==
    (idv.phase = "done" /\ HasDuplicate(idv.ids)) =>
        LET d == FirstDuplicate(idv.ids)
            rejected == {k \in 1..(d - 1) : idv.inner[k] # "Ok"}
        IN  IF rejected = {}
            THEN /\ idv.out.res = "DuplicateItem"
                 /\ idv.out.trace = InnerCalls(d - 1) \o DuplicateReport
                 /\ idv.out.log = <<Event(idv.severity, "Unique item declared twice.")>>
            ELSE LET k == CHOOSE k \in rejected : \A m \in rejected : k <= m IN
                 /\ idv.out.res = idv.inner[k]
                 /\ idv.out.trace =
                        InnerCalls(k) \o <<StepOf("log", 0, "Item rejected."),
                                           StepOf("err", 0, idv.inner[k])>>

\* C1, witness: a duplicate found at the third item, after two items that the
\* inner validator accepted.
C1_Witness ==
    /\ idv.phase = "done"
    /\ idv.ids = <<"a", "b", "a">>
    /\ idv.inner = <<"Ok", "Ok", "Unknown">>
    /\ idv.out.res = "DuplicateItem"

HostIds(c) == [i \in 1..Len(c.hosts) |-> HostId(c.hosts[i])]

\* A host in which nothing is wrong, whatever the modules directory is.
PlainHost(h) ==
    /\ BindingSelfValidate(h.listen)
    /\ IsNone(h.hostname) \/ HostnameMatches(Unwrap(h.hostname))
    /\ IsNone(h.static_dir)
    /\ h.mods = <<>>

\* C2: a configuration in which two hosts have the same (port, hostname), and
\* in which nothing else is wrong (Mammoth validates, no module is declared,
\* every host is valid by itself), fails validation with DuplicateItem,
\* whether mods_dir is set or not.
C2_DuplicateHostsRejected ==
    (/\ cfg.phase = "done"
     /\ HasDuplicate(HostIds(cfg))
     /\ MammothValidate(cfg.mammoth).res = "Ok"
     /\ cfg.mods = <<>>
     /\ \A i \in 1..Len(cfg.hosts) : PlainHost(cfg.hosts[i]))
        => vres.res = "DuplicateItem"

\* C3: with no mods_dir, a configuration that declares a module, in the
\* global list or in the list of a host, fails validation with NoModsDir
\* (given that Mammoth validates and that there is a host, which are checked
\* before).
C3_ModulesWithoutModsDirRejected ==
    (/\ cfg.phase = "done"
     /\ IsNone(cfg.mammoth.mods_dir)
     /\ MammothValidate(cfg.mammoth).res = "Ok"
     /\ cfg.hosts # <<>>
     /\ cfg.mods # <<>> \/ \E i \in 1..Len(cfg.hosts) : cfg.hosts[i].mods # <<>>)
        => vres.res = "NoModsDir"

StepsNamed(trace, names) == SelectSeq(trace, LAMBDA t : t.step \in names)

\* C4: the top-level validation starts with Mammoth, and Mammoth's error is
\* the result, with nothing checked or logged after it; otherwise an empty
\* host list gives NoHost before any module or host is validated; and in
\* every case the Err that is raised first is the result and the last step
\* taken, so that no event is logged after it.
C4_FixedOrderFailFast ==
    cfg.phase = "done" =>
        LET m == MammothValidate(cfg.mammoth)
            n == Len(vres.trace)
            errs == {i \in 1..n : vres.trace[i].step = "err"}
        IN  /\ vres.trace[1] = StepOf("mammoth", 0, "")
            /\ m.res # "Ok" =>
                  /\ vres.res = m.res
                  /\ vres.log = m.log
                  /\ vres.trace = <<StepOf("mammoth", 0, "")>> \o m.trace
            /\ (m.res = "Ok" /\ cfg.hosts = <<>>) =>
                  /\ vres.res = "NoHost"
                  /\ vres.log = <<Event("Critical", "No host specified.")>>
                  /\ StepsNamed(vres.trace, {"module", "host", "Library::new"}) = <<>>
            /\ vres.res = "Ok" <=> errs = {}
            /\ vres.res # "Ok" =>
                  /\ errs = {n}
                  /\ vres.trace[n].what = vres.res
            /\ Len(StepsNamed(vres.trace, {"log"})) = Len(vres.log)

\* C4, witness: NoHost returned for a configuration whose modules directory is
\* set and whose module list would have been validated next.
C4_Witness ==
    /\ cfg.phase = "done"
    /\ vres.res = "NoHost"
    /\ IsSome(cfg.mammoth.mods_dir)
    /\ cfg.mods # <<>>

(***************************************************************************)
(* Claims about Binding.                                                   *)
(***************************************************************************)
MapHas(map, k) == \E i \in 1..Len(map) : map[i].k = k
MapGet(map, k) == map[CHOOSE i \in 1..Len(map) : map[i].k = k]
MapSecureIs(map, b) == \E i \in 1..Len(map) : map[i].k = "secure" /\ map[i].b = b
KeysDistinct(map) == \A i, j \in 1..Len(map) : map[i].k = map[j].k => i = j
HasPort(map) == MapHas(map, "port") /\ MapGet(map, "port").n \in 0..(U16Range - 1)
OneOfCertKey(map) == MapHas(map, "cert") # MapHas(map, "key")

\* secure == true requires both cert and key
BindingInvariant(b) == b.secure => (IsSome(b.cert) /\ IsSome(b.key))

\* C5, as stated: every Binding the operations and the deserializer produce
\* has cert and key when it is secure, and a map that has secure = true
\* without both cert and key, or that has only one of cert and key, is
\* rejected.
C5_EveryLoneCertOrKeyRejected ==
    /\ IsSome(binding) => BindingInvariant(Unwrap(binding))
    /\ lastop.op = "visit_map" =>
          LET map == lastop.map IN
          ((MapSecureIs(map, TRUE) /\ ~(MapHas(map, "cert") /\ MapHas(map, "key")))
              \/ OneOfCertKey(map)) => ~lastop.res.ok

\* C5, amended: every Binding the operations and the deserializer produce has
\* cert and key when it is secure; a map that has secure = true without both
\* cert and key, or that has no secure flag and only one of cert and key, is
\* rejected with an error and yields no Binding (a map with secure = false is
\* not rejected for carrying only one of them).
C5_SecureHasCertAndKey ==
    /\ IsSome(binding) => BindingInvariant(Unwrap(binding))
    /\ lastop.op = "visit_map" =>
          LET map == lastop.map IN
          /\ lastop.res.ok => (lastop.res.val = binding /\ IsSome(binding))
          /\ ((MapSecureIs(map, TRUE) /\ ~(MapHas(map, "cert") /\ MapHas(map, "key")))
                \/ (~MapHas(map, "secure") /\ OneOfCertKey(map)))
              => (~lastop.res.ok /\ IsNone(binding))

\* C5, witness: a map with a port and secure = true alone was rejected.
C5_Witness ==
    /\ lastop.op = "visit_map"
    /\ lastop.map = <<PortEntry(443), SecureEntry(TRUE)>>
    /\ ~lastop.res.ok

\* C6: a map with a port, a cert and a key and no secure flag deserializes to
\* Binding::with_security(port, cert, key).
C6_DetectsSecureFromCertAndKey ==
    (/\ lastop.op = "visit_map"
     /\ KeysDistinct(lastop.map)
     /\ HasPort(lastop.map)
     /\ MapHas(lastop.map, "cert")
     /\ MapHas(lastop.map, "key")
     /\ ~MapHas(lastop.map, "secure"))
        => /\ lastop.res.ok
           /\ lastop.res.val =
                Some(BindingWithSecurity(MapGet(lastop.map, "port").n,
                                         MapGet(lastop.map, "cert").p,
                                         MapGet(lastop.map, "key").p))
           /\ binding = lastop.res.val

\* C6, witness: such a map, the key given before the cert, gave a secure
\* Binding.
C6_Witness ==
    /\ lastop.op = "visit_map"
    /\ lastop.map = <<KeyEntry(<<".", "/", "key.pem">>), PortEntry(443),
                      CertEntry(<<".", "/", "cert.pem">>)>>
    /\ IsSome(binding)
    /\ Unwrap(binding).secure

\* C7: a map with a port and secure = false deserializes to Binding::new(port),
\* whatever cert and key it carries.
C7_ExplicitFalseWins ==
    (/\ lastop.op = "visit_map"
     /\ KeysDistinct(lastop.map)
     /\ HasPort(lastop.map)
     /\ MapSecureIs(lastop.map, FALSE))
        => /\ lastop.res.ok
           /\ lastop.res.val = Some(BindingNew(MapGet(lastop.map, "port").n))
           /\ binding = lastop.res.val
           /\ IsNone(Unwrap(binding).cert) /\ IsNone(Unwrap(binding).key)

\* C7, witness: a map with secure = false, a cert and a key gave an insecure
\* Binding.
C7_Witness ==
    /\ lastop.op = "visit_map"
    /\ Len(lastop.map) = 4
    /\ KeysDistinct(lastop.map)
    /\ HasPort(lastop.map)
    /\ MapSecureIs(lastop.map, FALSE)
    /\ IsSome(binding)
    /\ ~Unwrap(binding).secure

\* C8: a plain integer v, of whatever integer type, deserializes to the
\* insecure Binding whose port is v.
C8_IntegerIsThePort ==
    lastop.op = "visit_int" =>
        /\ lastop.res.ok
        /\ lastop.res.val =
              Some([port |-> lastop.v, secure |-> FALSE, cert |-> None, key |-> None])

(***************************************************************************)
(* Claims about the module loader.                                         *)
(***************************************************************************)
\* C9: a module whose enabled flag is false is never loaded (load_into of it
\* takes no step: no library is loaded, no entry point is called, no
\* interface is constructed or registered), and validating it succeeds
\* without opening its library or asking for its version.
C9_DisabledModuleIsSkipped ==
    /\ \A i \in 1..Len(ifaces) : ifaces[i].module.enabled
    /\ (lastload.op = "load_into" /\ ~Unwrap(lastload.module).enabled) =>
          lastload.trace = <<>>
    /\ (lastload.op = "validate" /\ ~Unwrap(lastload.module).enabled) =>
          /\ lastload.out.res = "Ok"
          /\ StepsNamed(lastload.out.trace, {"Library::new", "__version"}) = <<>>

\* The entries of a list (of the set's libraries, of the native libraries
\* opened) whose path equals p.
WithPath(list, p) == {i \in 1..Len(list) : PathEq(list[i].path, p)}

\* What holds of the set after any sequence of calls: a path is opened at most
\* once and has at most one LoadedLibrary, each LoadedLibrary owns the native
\* library opened for it, and the path of a call that loaded its library was
\* opened exactly once and has exactly one LoadedLibrary.
OpenedOncePerPath ==
    /\ \A i, j \in 1..Len(native) : PathEq(native[i].path, native[j].path) => i = j
    /\ Len(mod_set.libraries) = Len(native)
    /\ \A i \in 1..Len(native) :
          mod_set.libraries[i] = [path |-> native[i].path, library |-> i]
    /\ (lastload.op = "load" /\ lastload.res = "Ok")
          \/ (lastload.op = "load_into" /\ lastload.trace # <<>>) =>
          /\ Cardinality(WithPath(native, Unwrap(lastload.path))) = 1
          /\ Cardinality(WithPath(mod_set.libraries, Unwrap(lastload.path))) = 1
    /\ lastload.op = "load" =>
          (lastload.res = "Ok" <=> IsSome(lastload.lib))
    /\ (lastload.op = "load" /\ lastload.res = "Ok") =>
          Unwrap(lastload.lib) \in {mod_set.libraries[i] : i \in 1..Len(mod_set.libraries)}

\* A load or load_into of a path that the set already holds opens nothing,
\* leaves the library list as it is, and load returns the entry held.
SecondLoadShares ==
    (/\ lastload'.n = lastload.n + 1
     /\ lastload'.op \in {"load", "load_into"}
     /\ WithPath(mod_set.libraries, Unwrap(lastload'.path)) # {})
        => /\ native' = native
           /\ mod_set'.libraries = mod_set.libraries
           /\ lastload'.op = "load" =>
                 /\ lastload'.res = "Ok"
                 /\ \E i \in WithPath(mod_set.libraries, Unwrap(lastload'.path)) :
                        lastload'.lib = Some(mod_set.libraries[i])

\* C10: after any sequence of load_into (and load) calls on one set, also
\* when different Module descriptors resolve to the same library path, the
\* native library of a path has been opened once and the set holds one
\* LoadedLibrary for it; a later load of the path returns the entry the set
\* holds and leaves the library list unchanged.
C10_OneOpenPerPath == []OpenedOncePerPath /\ [][SecondLoadShares]_vars

\* C10, witness: two interfaces registered under different names, built from
\* two Module descriptors that resolve to one path, and one native library.
C10_Witness ==
    /\ Len(mod_set.modules) = 2
    /\ mod_set.modules[1].library # mod_set.modules[2].library
    /\ ifaces[1].library = ifaces[2].library
    /\ Len(native) = 1
    /\ Len(mod_set.libraries) = 1

\* C11: the identity of a LoadedLibrary is its canonical path: load calls
\* whose paths differ as text but name the same file (./mods/a and mods/a)
\* share one LoadedLibrary, a file is opened once, and load returns the
\* entry the set holds for that file.
C11_CanonicalPathIsIdentity ==
    /\ \A i, j \in 1..Len(native) : native[i].file = native[j].file => i = j
    /\ \A i, j \in 1..Len(mod_set.libraries) :
          Canon(mod_set.libraries[i].path) = Canon(mod_set.libraries[j].path) => i = j
    /\ (lastload.op = "load" /\ lastload.res = "Ok") =>
          \A i \in 1..Len(mod_set.libraries) :
              Canon(mod_set.libraries[i].path) = Canon(Unwrap(lastload.path))
                  => lastload.lib = Some(mod_set.libraries[i])

\* C12: under every interleaving of concurrent load calls on one set, the
\* native library of a path is opened at most once and the set holds at most
\* one LoadedLibrary for it: between a caller's lookup and its push no other
\* caller runs a step of load, and callers given the same path get the same
\* entry.
C12_ConcurrentLoadsOpenOnce ==
    /\ \A i, j \in 1..Len(native) : PathEq(native[i].path, native[j].path) => i = j
    /\ \A i, j \in 1..Len(mod_set.libraries) :
          PathEq(mod_set.libraries[i].path, mod_set.libraries[j].path) => i = j
    /\ \A c \in Callers : callers[c].pc \in {"find", "open", "push", "return"} =>
          /\ borrow = Some(c)
          /\ \A d \in Callers \ {c} : callers[d].pc \in {"idle", "done"}
    /\ \A c, d \in Callers :
          (/\ callers[c].pc = "done" /\ callers[d].pc = "done"
           /\ callers[c].res = "Ok" /\ callers[d].res = "Ok"
           /\ PathEq(Unwrap(callers[c].path), Unwrap(callers[d].path)))
              => callers[c].lib = callers[d].lib

\* C12, witness: every caller has loaded the same path and one native library
\* is open.
C12_Witness ==
    /\ \A c \in Callers :
          /\ callers[c].pc = "done"
          /\ callers[c].res = "Ok"
          /\ callers[c].path = callers[1].path
    /\ Len(native) = 1

\* C13: when the version a library's __version returns does not satisfy the
\* compatibility requirement, load_into fails with InvalidModuleVersion that
\* carries the version found and the requirement, and stops after the check:
\* __construct and on_load are not called, no interface exists for the call
\* and nothing is registered under the module's name by it.
C13_IncompatibleVersionNotConstructed ==
    (/\ lastload.op = "load_into"
     /\ IsSome(LibAt(Unwrap(lastload.path)))
     /\ Unwrap(LibAt(Unwrap(lastload.path))).has_version
     /\ Unwrap(LibAt(Unwrap(lastload.path))).version \notin {<<0, 0, z>> : z \in 0..9})
        => /\ lastload.res = "InvalidModuleVersion"
           /\ lastload.err = Some([found |-> Unwrap(LibAt(Unwrap(lastload.path))).version,
                                   required |-> "~0.0.0"])
           /\ lastload.trace = <<"load", "__version", "compatible">>
           /\ \A i \in 1..Len(ifaces) : ifaces[i].module.name # Unwrap(lastload.module).name
           /\ \A i \in 1..Len(mod_set.modules) :
                  mod_set.modules[i].library # Unwrap(lastload.module).name

\* C13, witness: load_into of the module whose library is version 0.1.0 has
\* failed after an earlier module was loaded.
C13_Witness ==
    /\ lastload.op = "load_into"
    /\ Unwrap(lastload.module).name = "mod_old"
    /\ lastload.res = "InvalidModuleVersion"
    /\ Len(mod_set.modules) = 1
    /\ Len(mod_set.libraries) = 2

\* The steps of a load_into that succeeds, in the order the code takes them.
LoadIntoSteps == <<"load", "__version", "compatible", "__construct", "on_load", "insert">>

\* The order of the steps and the on_load calls, in every state: a load_into
\* takes a prefix of LoadIntoSteps and all of it when it succeeds; every
\* interface constructed by load_into has had on_load once and is registered
\* once, in the order of construction; a validation takes no on_load step.
OnLoadOnceInOrder ==
    /\ lastload.op = "load_into" =>
          /\ \E n \in 0..Len(LoadIntoSteps) : lastload.trace = SubSeq(LoadIntoSteps, 1, n)
          /\ lastload.res = "Ok" <=> lastload.trace = LoadIntoSteps
    /\ \A i \in 1..Len(ifaces) : ifaces[i].on_load = 1
    /\ Len(mod_set.modules) = Len(ifaces)
    /\ \A i \in 1..Len(ifaces) :
          /\ mod_set.modules[i].interface = i
          /\ mod_set.modules[i].library = ifaces[i].module.name
    /\ lastload.op = "validate" =>
          StepsNamed(lastload.out.trace, {"on_load", "insert"}) = <<>>

\* A call constructs and registers an interface only when it is a load_into
\* that succeeds, and then exactly one; a validation leaves the interfaces
\* and the set as they are.
OnlyLoadIntoRegisters ==
    /\ (lastload'.op = "load_into" /\ lastload'.res = "Ok") =>
          /\ Len(ifaces') = Len(ifaces) + 1
          /\ SubSeq(ifaces', 1, Len(ifaces)) = ifaces
    /\ ~(lastload'.op = "load_into" /\ lastload'.res = "Ok") => ifaces' = ifaces
    /\ lastload'.op = "validate" => mod_set' = mod_set

\* C14: a load_into that succeeds takes its steps in the order load library,
\* __version, compatibility check, __construct, on_load, register; on_load
\* is called exactly once on each interface load_into constructs, after the
\* construction and before the registration, and never on an interface
\* constructed during validation.
C14_LoadIntoStepOrder == []OnLoadOnceInOrder /\ [][OnlyLoadIntoRegisters]_vars

\* C14, witness: a validation that constructed an interface has run after a
\* load_into that succeeded.
C14_Witness ==
    /\ lastload.op = "validate"
    /\ StepsNamed(lastload.out.trace, {"__construct"}) # <<>>
    /\ Len(ifaces) = 2
    /\ mod_set.modules[1].library # mod_set.modules[2].library

\* The interfaces registered in the set and not yet released.
Registered ==
    {mod_set.modules[k].interface : k \in 1..Len(mod_set.modules)} \ teardown.released

\* C15: in every state, the intermediate states of dropping the set included,
\* the library file an interface was constructed from is not unloaded while
\* the interface is registered and not yet released.
C15_LibraryOutlivesInterfaces ==
    \A i \in Registered : ~Unloaded(native[ifaces[i].library].file)

\* C16: when the set is torn down, on_shutdown is called exactly once on
\* every registered interface, and before any library handle of the set is
\* closed.
C16_ShutdownBeforeRelease ==
    /\ \A i \in 1..Len(ifaces) : ifaces[i].on_shutdown <= 1
    /\ (teardown.closed # {} \/ teardown.phase = "dropped") =>
          \A k \in 1..Len(mod_set.modules) :
              ifaces[mod_set.modules[k].interface].on_shutdown = 1

\* C17: after any sequence of load_into calls on one set, no two registered
\* entries carry the same module name, also when load_into is called more
\* than once for the same Module; a module that load_into accepted has
\* exactly one entry.
C17_OneEntryPerModule ==
    /\ \A i, j \in 1..Len(mod_set.modules) :
          mod_set.modules[i].library = mod_set.modules[j].library => i = j
    /\ (lastload.op = "load_into" /\ lastload.res = "Ok") =>
          Cardinality({i \in 1..Len(mod_set.modules) :
              mod_set.modules[i].library = Unwrap(lastload.module).name}) = 1

\* C18: for a module with no location, the path load_into opens is the
\* default directory joined with the module's name and the extension of the
\* platform (.dll on Windows, .so on Linux): the path that validation probes
\* for the same module and directory.
C18_LibPathUsesPlatformExtension ==
    (/\ lastload.op = "load_into"
     /\ IsNone(Unwrap(lastload.module).location))
        => /\ target_os = "windows" =>
                 lastload.path = Some(mod_set.default_path
                                        \o <<Unwrap(lastload.module).name \o ".dll">>)
           /\ target_os = "linux" =>
                 lastload.path = Some(mod_set.default_path
                                        \o <<Unwrap(lastload.module).name \o ".so">>)

(***************************************************************************)
(* Claims about the host and module lists of a ConfigurationFile.          *)
(***************************************************************************)
\* C19: after any sequence of add_host and remove_host calls, from any
\* deserialized host list, the host list holds at most one Host per
\* (port, hostname) identity.
C19_OneHostPerIdentity ==
    lastedit.op \in {"add_host", "remove_host"} =>
        \A i, j \in 1..Len(conf.hosts) :
            (/\ conf.hosts[i].listen.port = conf.hosts[j].listen.port
             /\ conf.hosts[i].hostname = conf.hosts[j].hostname) => i = j

\* A host has the identity id: the same port and the same hostname, an absent
\* hostname matching an absent one only.
HasIdentity(h, id) ==
    /\ h.listen.port = id.port
    /\ IF IsNone(id.hostname) THEN IsNone(h.hostname)
       ELSE IsSome(h.hostname) /\ Unwrap(h.hostname) = Unwrap(id.hostname)

\* The modules of a list that are not called name, in their order.
NotNamed(list, name) == SelectSeq(list, LAMBDA m : m.name # name)

\* C20: has_host(id) is true exactly when a host of the list has id's port
\* and hostname; after remove_host(id) no host has that identity and the
\* hosts of every other identity are there in their original order, the
\* module list being untouched.  has_module and remove_mod do the same by
\* module name, on the configuration's list and on a host's list, and the
\* queries change nothing.
C20_HasAndRemoveByIdentity ==
    LET before == lastedit.before
        arg == Unwrap(lastedit.arg)
        at == lastedit.at
    IN  /\ lastedit.op = "has_host" =>
              /\ lastedit.res <=> \E i \in 1..Len(before.hosts) : HasIdentity(before.hosts[i], arg)
              /\ conf = before
        /\ lastedit.op = "remove_host" =>
              /\ \A i \in 1..Len(conf.hosts) : ~HasIdentity(conf.hosts[i], arg)
              /\ conf.hosts = SelectSeq(before.hosts, LAMBDA h : ~HasIdentity(h, arg))
              /\ conf.mods = before.mods
        /\ lastedit.op = "has_module" =>
              /\ lastedit.res <=> \E i \in 1..Len(before.mods) : before.mods[i].name = arg
              /\ conf = before
        /\ lastedit.op = "remove_mod" =>
              /\ \A i \in 1..Len(conf.mods) : conf.mods[i].name # arg
              /\ conf.mods = NotNamed(before.mods, arg)
              /\ conf.hosts = before.hosts
        /\ lastedit.op = "host_has_module" =>
              /\ lastedit.res <=>
                    \E i \in 1..Len(before.hosts[at].mods) : before.hosts[at].mods[i].name = arg
              /\ conf = before
        /\ lastedit.op = "host_remove_mod" =>
              /\ conf.hosts[at].mods = NotNamed(before.hosts[at].mods, arg)
              /\ conf = [before EXCEPT !.hosts[at].mods = conf.hosts[at].mods]

\* C20, witness: remove_host has removed the two hosts of one identity from
\* a list and left the host between them.
C20_Witness ==
    /\ lastedit.op = "remove_host"
    /\ lastedit.before.hosts = <<HostA, HostC, HostB>>
    /\ lastedit.arg = Some(HostIdentifierNew(8080, None))
    /\ conf.hosts = <<HostC>>
    /\ Len(conf.mods) = 3

(***************************************************************************)
(* The identifier of a Host.                                               *)
(***************************************************************************)
\* C21: the identifier of a Host, from identifier() and from Id::id() alike,
\* is HostIdentifier::new of the listen port and of the hostname the Host was
\* last given, after set_name, clear_name, set_binding and
\* binding_mut().set_port as after construction; and host.is(id) is true
\* exactly when that identifier equals id.
C21_IdentifierFollowsSetters ==
    LET expected == HostIdentifierNew(lasthost.port, lasthost.name) IN
    /\ HostIdentifier(the_host) = expected
    /\ HostId(the_host) = expected
    /\ \A id \in HostIdInputs : HostIs(the_host, id) <=> HostIdentifier(the_host) = id
    /\ lasthost.op \in {"identifier", "id"} => lasthost.res = Some(expected)
    /\ lasthost.op = "is" => (Unwrap(lasthost.res) <=> Unwrap(lasthost.arg) = expected)

\* C21, witness: is(id) answers true for an identifier with a hostname, after
\* the hostname and the port were both changed by setters.
C21_Witness ==
    /\ lasthost.op = "is"
    /\ lasthost.res = Some(TRUE)
    /\ lasthost.n = 2
    /\ lasthost.name = Some("localhost")
    /\ the_host.listen.port = 8443
    /\ the_host.listen.secure = FALSE

(***************************************************************************)
(* The conditions the PathValidator detects, and what a validator does     *)
(* with a detected condition at each severity.                             *)
(***************************************************************************)
\* The failing condition of each PathValidator kind, as the contract states it.
PathConditionFails(kind, item) ==
    CASE kind = "ExistingDirectory" -> ~IsDir(item)
      [] kind = "ExistingFile" -> ~IsFile(item)
      [] kind = "FilePath" -> EndsWithSeparator(item)

\* C22: a PathValidator reports a condition (logs its event) exactly when the
\* path fails its kind: ExistingDirectory unless the path is an existing
\* directory, ExistingFile unless it is an existing regular file, FilePath if
\* and only if the text of the path ends with a path separator, whatever is
\* or is not at the path.
C22_PathKindsDetect ==
    (pv.phase = "done" /\ pv.validator = "PathValidator") =>
        (pv.out.log # <<>> <=> PathConditionFails(pv.kind, pv.item))

\* C23: a PathValidator or an IdValidator of severity s that detects a
\* failing condition logs exactly one event, of severity s, and returns Err
\* if and only if s >= Error: with Debug, Information or Warning the
\* condition is recorded and validate returns Ok.
C23_ErrIffSeverityAtLeastError ==
    LET detected ==
            IF pv.validator = "PathValidator"
            THEN pv.out.log # <<>> \/ pv.out.res # "Ok"
            ELSE HasDuplicate(pv.ids)
    IN  (pv.phase = "done" /\ detected) =>
            /\ pv.out.log = <<Event(pv.severity, pv.out.log[1].description)>>
            /\ pv.out.res # "Ok" <=> SevGE(pv.severity, "Error")

(***************************************************************************)
(* What a failed validation leaves in the logger.                          *)
(***************************************************************************)
\* C24: when the top-level validation (and with it the host and module
\* validation it runs) returns Err, the event that describes the failure was
\* appended to the logger right before the Err was raised, whatever the
\* cause: a missing module library, a missing exported symbol, an invalid
\* binding, the module's own on_validation error.
C24_ErrIsLoggedFirst ==
    (cfg.phase = "done" /\ vres.res # "Ok") =>
        LET n == Len(vres.trace) IN
        /\ vres.log # <<>>
        /\ n >= 2
        /\ vres.trace[n].step = "err"
        /\ vres.trace[n - 1].step = "log"

(***************************************************************************)
(* The validation of a Host.                                               *)
(***************************************************************************)
\* The checks a host validation ran, by name and in the order it ran them.
HostChecks(trace) ==
    LET m == StepsNamed(trace, {"binding", "hostname", "PathValidator", "module"})
    IN  [i \in 1..Len(m) |-> m[i].step]

\* C25: the validation of a Host checks the binding, then the hostname, then
\* the serving directory, then the module list, and stops at the first check
\* that fails: a hostname that matches neither pattern gives InvalidHostname
\* with one Critical event, a serving directory that is not an existing
\* directory gives FileNotFound, and the modules are validated by name, each
\* against the modules directory, a repeated name giving DuplicateItem.
C25_HostChecksInOrder ==
    lasthost.op = "validate" =>
        LET r == Unwrap(lasthost.res)
            h == the_host
            checks == HostChecks(r.trace)
            bindingBad == ~BindingSelfValidate(h.listen)
            nameBad == IsSome(h.hostname) /\ ~HostnameMatches(Unwrap(h.hostname))
            dirBad == IsSome(h.static_dir) /\ ~IsDir(Unwrap(h.static_dir))
            upToName == <<"binding">> \o (IF IsSome(h.hostname) THEN <<"hostname">> ELSE <<>>)
            upToDir == upToName \o (IF IsSome(h.static_dir) THEN <<"PathValidator">> ELSE <<>>)
            names == [i \in 1..Len(h.mods) |-> h.mods[i].name]
            inner == [i \in 1..Len(h.mods) |-> ModuleValidate(<<"mods", "/">>, h.mods[i])]
        IN  /\ bindingBad => r.res = "Ssl" /\ checks = <<"binding">>
            /\ (~bindingBad /\ nameBad) =>
                  /\ r.res = "InvalidHostname"
                  /\ r.log = <<Event("Critical", "Invalid hostname.")>>
                  /\ checks = upToName
            /\ (~bindingBad /\ ~nameBad /\ dirBad) =>
                  /\ r.res = "FileNotFound"
                  /\ checks = upToDir
            /\ (~bindingBad /\ ~nameBad /\ ~dirBad) =>
                  /\ Len(checks) >= Len(upToDir)
                  /\ SubSeq(checks, 1, Len(upToDir)) = upToDir
                  /\ \A i \in (Len(upToDir) + 1)..Len(checks) : checks[i] = "module"
                  /\ h.mods = <<>> => r.res = "Ok"
                  /\ (h.mods # <<>> /\ inner[1].res # "Ok") =>
                        r.res = inner[1].res /\ Len(checks) = Len(upToDir) + 1
                  /\ (HasDuplicate(names) /\ \A i \in 1..Len(inner) : inner[i].res = "Ok") =>
                        r.res = "DuplicateItem"
            /\ r.res # "Ok" => r.trace[Len(r.trace)].step = "err"

\* C25, witness: a host whose hostname and serving directory are both wrong,
\* and which declares modules, fails at the hostname.
C25_Witness ==
    /\ lasthost.op = "validate"
    /\ Unwrap(lasthost.res).res = "InvalidHostname"
    /\ IsSome(the_host.static_dir) /\ ~IsDir(Unwrap(the_host.static_dir))
    /\ the_host.mods # <<>>
    /\ lasthost.n > 0

(***************************************************************************)
(* Optional fields that are absent.                                        *)
(***************************************************************************)
\* The steps of the top-level validation that precede the first item of a
\* list: the validation of the Mammoth section and the host list check.
BeforeLists(trace) ==
    LET marks == {i \in 1..Len(trace) : trace[i].step \in {"module", "host"}}
        first == IF marks = {} THEN Len(trace) + 1
                 ELSE CHOOSE i \in marks : \A j \in marks : i <= j
    IN  SubSeq(trace, 1, first - 1)

\* The steps the validation of host i took, if it was validated.
HostSegment(trace, i) ==
    LET starts == {k \in 1..Len(trace) : trace[k].step = "host"}
        at == {k \in starts : trace[k].idx = i}
        from == CHOOSE k \in at : TRUE
        later == {k \in starts : k > from}
        to == IF later = {} THEN Len(trace)
              ELSE (CHOOSE k \in later : \A j \in later : k <= j) - 1
    IN  IF at = {} THEN <<>> ELSE SubSeq(trace, from + 1, to)

MinimalConfiguration(c) ==
    /\ c.mammoth = [mods_dir |-> None, log_file |-> None]
    /\ c.mods = <<>>
    /\ c.hosts = <<HostNew(8080)>>

\* C27: the minimal configuration validates successfully, and nothing is
\* logged for it.
C27_MinimalConfigurationValid ==
    (cfg.phase = "done" /\ MinimalConfiguration(cfg)) =>
        vres.res = "Ok" /\ vres.log = <<>>

\* C27, witness: the minimal configuration has been validated.
C27_Witness ==
    /\ cfg.phase = "done"
    /\ MinimalConfiguration(cfg)
    /\ cfg.hosts[1].listen = BindingNew(8080)
    /\ vres.trace = <<StepOf("mammoth", 0, "")>>

(***************************************************************************)
(* Threads that log through one shared logger.                             *)
(***************************************************************************)
\* How many times an event is in the logger.
TimesLogged(e) == Cardinality({i \in 1..Len(logger) : logger[i] = e})

\* C29: under every interleaving of the threads that log through the shared
\* logger, one call at a time is between the grant and the release of the
\* write lock; the event of every call that has stored it is in the logger
\* exactly once and whole, and the logger holds nothing else; the lock is
\* free again once the call is over; and a thread with no registered logger
\* never waits for the lock and records nothing.
C29_OneLogCallAtATime ==
    LET inside(t) == threads[t].pc \in {"read", "store", "unlock"}
        stored(t) == threads[t].registered /\ threads[t].pc \in {"unlock", "done"}
    IN  /\ \A t \in Threads : inside(t) <=> wlock = Some(t)
        /\ \A t, u \in Threads : (inside(t) /\ inside(u)) => t = u
        /\ \A t \in Threads : TimesLogged(LogEvent(t)) = IF stored(t) THEN 1 ELSE 0
        /\ Len(logger) = Cardinality({t \in Threads : stored(t)})
        /\ (\A t \in Threads : threads[t].pc \in {"idle", "lock", "done"}) => wlock = None
        /\ \A t \in Threads :
              ~threads[t].registered =>
                  /\ threads[t].pc \in {"idle", "done"}
                  /\ TimesLogged(LogEvent(t)) = 0

\* C29, witness: two threads have logged, one after the other, and a thread
\* with no logger has returned from its call while the lock was held.
C29_Witness ==
    /\ Len(logger) = 2
    /\ wlock = None
    /\ \E t \in Threads :
          /\ ~threads[t].registered
          /\ threads[t].pc = "done"
          /\ threads[t].saw # None /\ Unwrap(threads[t].saw) # None

(***************************************************************************)
(* A load_into that fails.                                                 *)
(***************************************************************************)
\* The set holds a LoadedLibrary for the path.
Cached(set, path) == \E i \in 1..Len(set.libraries) : PathEq(set.libraries[i].path, path)

\* C30: a load_into that fails makes one attempt and leaves the registered
\* modules and the constructed interfaces as they were, on_load being called
\* on nothing. If the library cannot be opened, the libraries of the set and
\* the open handles are unchanged too. If the library is there and __version
\* or __construct is missing or the version is incompatible, the set holds
\* the library after the call: the entry it held before, or one new entry
\* with one new handle.
C30_FailedLoadIntoKeepsModules ==
    [][(lastload'.op = "load_into" /\ lastload'.n = lastload.n + 1 /\ lastload'.res # "Ok") =>
        LET path == Unwrap(lastload'.path)
            steps == lastload'.trace
        IN  /\ mod_set'.modules = mod_set.modules
            /\ ifaces' = ifaces
            /\ \A i \in 1..Len(steps) : steps[i] \notin {"__construct", "on_load", "insert"}
            /\ Cardinality({i \in 1..Len(steps) : steps[i] = "load"}) <= 1
            /\ Len(native') <= Len(native) + 1
            /\ (IsNone(LibAt(path))) =>
                  /\ lastload'.res = "Io"
                  /\ steps = <<>>
                  /\ mod_set'.libraries = mod_set.libraries
                  /\ native' = native
            /\ (IsSome(LibAt(path))) =>
                  /\ lastload'.res \in {"Io", "InvalidModuleVersion"}
                  /\ Cached(mod_set', path)
                  /\ Cached(mod_set, path) =>
                        mod_set'.libraries = mod_set.libraries /\ native' = native
                  /\ ~Cached(mod_set, path) =>
                        /\ mod_set'.libraries =
                               Append(mod_set.libraries,
                                      [path |-> path, library |-> Len(native) + 1])
                        /\ Len(native') = Len(native) + 1
    ]_vars

\* C30, witness: after one module was registered, a load_into failed for a
\* library without __version and another for a library that is not there:
\* the set holds the two libraries that were opened and the one module.
C30_Witness ==
    /\ lastload.op = "load_into"
    /\ lastload.res = "Io"
    /\ lastload.n = 3
    /\ IsNone(LibAt(Unwrap(lastload.path)))
    /\ Len(mod_set.modules) = 1
    /\ Len(mod_set.libraries) = 2
    /\ \E i \in 1..2 : ~Unwrap(LibAt(mod_set.libraries[i].path)).has_version

====
